---- MODULE Spec2Model ----
(***************************************************************************)
(* A model of the gestalt messaging endpoints:                             *)
(*   - the netstring stream parser  (gestalt/stream/protocols/netstring.py)*)
(*   - the stream endpoint          (gestalt/stream/endpoint.py)           *)
(*   - the AMQP requester           (gestalt/amq/requester.py)             *)
(* Each component has its own specification (SpecNet, SpecStream, SpecRpc) *)
(* over its own group of variables; the variables of the other components  *)
(* stay at their initial value.                                            *)
(***************************************************************************)
EXTENDS Integers, Sequences, FiniteSets, TLC

\* ------------------------------------------------------------------------
\* Bounds of the model (not program constants)
\* ------------------------------------------------------------------------
\* longest payload put on the wire
MaxPayload == 2
\* number of frames (valid or invalid) put on the wire
MaxFrames == 3
\* number of request() calls made on the requester
MaxRequests == 2
\* number of events around the requester: start and stop calls, deliveries,
\* returns and channel closes of the broker
MaxEvents == 3
\* number of events around a stream endpoint: start and stop calls and
\* connections established to or by it
MaxStimuli == 5
\* the count of connect attempts saturates here
MaxAttempts == 7
\* request() calls made while the responder and the broker are followed
MaxCalls == 1
\* start/stop calls and connections in the behaviours checked for liveness
MaxFairStimuli == 4
\* start/stop calls and broker events of the requester in the behaviours
\* checked for liveness
MaxFairEvents == 2

\* messages published to the consumer's queue
MaxMessages == 3

\* start() calls made on the datagram endpoint
MaxStarts == 3

\* datagrams handed to a datagram protocol
MaxDatagrams == 2

\* payloads written to the delimiter parser
MaxLines == 2

\* register_message calls made on a type registry
MaxRegistrations == 3

\* tasks the application spawns under the runner
MaxTasks == 3

\* largest repeats argument of a Timer
MaxRepeats == 4

\* request deliveries handed to the responder
MaxDeliveries == 3

VARIABLES
  \* ---- netstring stream parser (NetstringStreamProtocol) ----
  ns_buffer,    \* self._buffer : sequence of bytes
  ns_state,     \* self._state  : "WAIT_HEADER" | "WAIT_PAYLOAD"
  ns_wire,      \* bytes written by the peer and not yet handed to data_received
  ns_sent,      \* what the peer wrote: sequence of [kind, payload]
  ns_msgs,      \* payloads passed to on_message, in order
  ns_bytewise,  \* every data_received call so far carried exactly one byte
  ns_calls,     \* number of data_received calls so far
  ns_closed,    \* self.close() has been called by the parser
  ns_raised,    \* a data_received call ended with an uncaught exception
  \* ---- AMQP requester (Requester) ----
  futures,        \* self.futures : correlation ids that have an entry
  slot,           \* state of the asyncio.Future created for each correlation id
  done_callbacks, \* futures whose done callbacks are scheduled (call_soon) and not yet run
  req_pc,         \* position of each request() call
  observed,       \* what each request() call returned or raised to its caller
  published,      \* correlation ids of the requests handed to the broker
  acking,         \* on_response_message calls suspended in "await message.ack()"
  response_queue, \* self.response_queue is set
  channel,        \* self.channel : "none" | "open" | "closed"
  rq_stop_pc,        \* position of the stop() call
  rq_events,      \* number of start/stop calls and broker events so far
  rq_raised,      \* exceptions that escaped from the requester's handlers
  \* ---- stream endpoint (StreamEndpoint) ----
  is_server,      \* StreamServer or StreamClient
  py37,           \* Python 3.6/3.7: asyncio.CancelledError is an Exception
  running,        \* self._running
  reconnect,      \* self._reconnect
  backoff,        \* self._backoff, in eighths of a second
  backoff_task,   \* self._backoff_task : 0 (None) or the connect task whose sleep it is
  connect_task,   \* self._connect_task : 0 (None) or a connect task
  listener,       \* self._listener : "none" | "open" | "closed"
  listener_addr,  \* self._listener_addr is set
  peers,          \* keys of self._peers
  conn,           \* state of each transport
  task,           \* the _connect coroutines run as tasks
  start_pc,       \* position of a server's start() call
  stop_pc,        \* position of the stop() call
  stop_todo,      \* peers stop() has still to close
  ev,             \* callbacks and events of the last step
  stopped,        \* stop() returned and start was not called since
  bind_failed,    \* the last start() failed to bind and start was not called since
  started_calls,  \* on_started calls since running last became true (0, 1, 2 = many)
  attempts,       \* connect attempts since the last start or successful connect
  last_wait,      \* nominal wait of the latest connect attempt
  stimuli,        \* number of start/stop calls and connections so far
  start_reconnect, \* the reconnect argument of the latest start() that took effect
  \* ---- StreamEndpoint.send ----
  last_send,      \* arguments and effect of the latest send() call
  \* ---- MTI stream parser (MtiStreamProtocol) ----
  mt_buffer,    \* self._buffer : sequence of bytes
  mt_state,     \* self._state  : "WAIT_HEADER" | "WAIT_PAYLOAD"
  mt_wire,      \* bytes written by the peer and not yet handed to data_received
  mt_sent,      \* what the peer wrote: sequence of [kind, payload, id]
  mt_msgs,      \* on_message calls, in order: [payload, option, id]
  mt_bytewise,  \* every data_received call so far carried exactly one byte
  mt_closed,    \* self.close() has been called by the parser
  mt_raised,    \* a data_received call ended with an uncaught exception
  mt_hung,      \* a data_received call never returns
  \* ---- AMQP responder (Responder) and the broker's routing ----
  rp,           \* what became of each request at the responder
  inbox,        \* messages routed to the response queue and not yet delivered
  \* ---- AMQP consumer (Consumer) and its queue ----
  cm,           \* each message: where it is and how on_message ended
  \* ---- user callbacks of a stream endpoint ----
  cb_kind,      \* each callback: a plain function or a coroutine function
  cb,           \* each callback: how its last invocation ended
  \* ---- datagram endpoint (DatagramEndpoint) ----
  dg_running,   \* self._running
  dg_protocol,  \* self._protocol is set
  dg_start,     \* each start() call: where it is or how it ended
  dg_stop_pc,   \* position of the stop() call in flight
  dg_stop_noop, \* a stop() call has returned at "if not self.running"
  dg_on_started,\* on_started has been invoked
  dg_on_stopped,\* on_stopped has been invoked
  \* ---- datagram protocols (NetstringDatagramProtocol, MtiDatagramProtocol) ----
  dn_log,       \* what each datagram_received call did, in order
  \* ---- delimiter parser (LineDelimitedStreamProtocol) ----
  dl_delimiter, \* self.delimiter
  dl_buffer,    \* self._buffer
  dl_wire,      \* bytes written by the peer and not yet handed to data_received
  dl_sent,      \* payloads the peer wrote, each followed by the delimiter
  dl_msgs,      \* payloads passed to on_message, in order
  dl_cut,       \* a data_received call has ended inside a delimiter
  \* ---- type registry (SchemaRegistry, ObjectRegistry) ----
  rg_id,        \* self._id
  rg_map,       \* self.id2schema / self.id2sym
  rg_last,      \* the last register_message call: arguments and result
  \* ---- compression registry (CompressorRegistry) ----
  type_to_name, \* self.type_to_name
  name_to_type, \* self.name_to_type
  \* ---- serializer registry (SerializerRegistry) ----
  serializers,  \* self._serializers: convenience name -> content type of the codec
  sr_last,      \* the last get_codec / get_serializer call: key and outcome
  \* ---- AMQP producer (Producer) ----
  pd_connection,\* self.connection is set
  pd_log,       \* publish_message calls that published: arguments and headers
  \* ---- application runner (runner.run) ----
  rn_finalize,  \* a finalize coroutine was given
  rn_pc,        \* where run() stands
  rn_stop,      \* a loop.stop callback is scheduled and has not run yet
  rn_tasks,     \* each task: not created, pending, or done
  rn_finalized, \* the finalizer has run to completion
  \* ---- timer (Timer) ----
  tm_repeats,   \* self.repeats
  tm_started,   \* self._started
  tm_running,   \* self._running
  tm_cancelled, \* self._cancelled
  tm_handle,    \* self._handle is a scheduled expiry
  tm_task,      \* self._task is a task that has not finished
  tm_done_cb,   \* _cancel is a done callback of the unfinished task
  tm_cb_pending,\* a finished task's done callback _cancel is scheduled
  tm_n,         \* self.repeats when start() was last called
  tm_calls,     \* invocations of the user callback since that start()
  tm_clean,     \* no expiry was skipped, no callback raised, no stop() so far
  \* ---- responder deliveries (Responder._on_request_message) ----
  rs_pc,        \* where the handling of each delivery stands
  rs_path,      \* the way the handling of each delivery ended
  rs_acks,      \* message.ack() calls on each delivery
  rs_rejects    \* message.reject() calls on each delivery

nsVars == <<ns_buffer, ns_state, ns_wire, ns_sent, ns_msgs, ns_bytewise,
            ns_calls, ns_closed, ns_raised>>

rqVars == <<futures, slot, done_callbacks, req_pc, observed, published, acking,
            response_queue, channel, rq_stop_pc, rq_events, rq_raised>>

seVars == <<is_server, py37, running, reconnect, backoff, backoff_task,
            connect_task, listener, listener_addr, peers, conn, task,
            start_pc, stop_pc, stop_todo, ev, stopped, bind_failed,
            started_calls, attempts, last_wait, stimuli,
            start_reconnect>>

sdVars == <<last_send>>

mtVars == <<mt_buffer, mt_state, mt_wire, mt_sent, mt_msgs, mt_bytewise,
            mt_closed, mt_raised, mt_hung>>

rpVars == <<rp, inbox>>

cmVars == <<cm>>

cbVars == <<cb_kind, cb>>

dgVars == <<dg_running, dg_protocol, dg_start, dg_stop_pc, dg_stop_noop,
            dg_on_started, dg_on_stopped>>

dnVars == <<dn_log>>

dlVars == <<dl_delimiter, dl_buffer, dl_wire, dl_sent, dl_msgs, dl_cut>>

rgVars == <<rg_id, rg_map, rg_last>>

crVars == <<type_to_name, name_to_type>>

srVars == <<serializers, sr_last>>

pdVars == <<pd_connection, pd_log>>

rnVars == <<rn_finalize, rn_pc, rn_stop, rn_tasks, rn_finalized>>

tmVars == <<tm_repeats, tm_started, tm_running, tm_cancelled, tm_handle,
            tm_task, tm_done_cb, tm_cb_pending, tm_n, tm_calls, tm_clean>>

rsVars == <<rs_pc, rs_path, rs_acks, rs_rejects>>

vars == <<nsVars, rqVars, seVars, sdVars, mtVars, rpVars, cmVars, cbVars, dgVars, dnVars, dlVars, rgVars, crVars, srVars, pdVars, rnVars, tmVars, rsVars>>

\* what the actions of one component leave unchanged
otherThanNs == <<rqVars, seVars, sdVars, mtVars, rpVars, cmVars, cbVars, dgVars, dnVars, dlVars, rgVars, crVars, srVars, pdVars, rnVars, tmVars, rsVars>>
otherThanRq == <<nsVars, seVars, sdVars, mtVars, rpVars, cmVars, cbVars, dgVars, dnVars, dlVars, rgVars, crVars, srVars, pdVars, rnVars, tmVars, rsVars>>
otherThanSe == <<nsVars, rqVars, sdVars, mtVars, rpVars, cmVars, cbVars, dgVars, dnVars, dlVars, rgVars, crVars, srVars, pdVars, rnVars, tmVars, rsVars>>
otherThanSd == <<nsVars, rqVars, seVars, mtVars, rpVars, cmVars, cbVars, dgVars, dnVars, dlVars, rgVars, crVars, srVars, pdVars, rnVars, tmVars, rsVars>>
otherThanMt == <<nsVars, rqVars, seVars, sdVars, rpVars, cmVars, cbVars, dgVars, dnVars, dlVars, rgVars, crVars, srVars, pdVars, rnVars, tmVars, rsVars>>
otherThanRqRp == <<nsVars, seVars, sdVars, mtVars, cmVars, cbVars, dgVars, dnVars, dlVars, rgVars, crVars, srVars, pdVars, rnVars, tmVars, rsVars>>
otherThanCm == <<nsVars, rqVars, seVars, sdVars, mtVars, rpVars, cbVars, dgVars, dnVars, dlVars, rgVars, crVars, srVars, pdVars, rnVars, tmVars, rsVars>>
otherThanCb == <<nsVars, rqVars, seVars, sdVars, mtVars, rpVars, cmVars, dgVars, dnVars, dlVars, rgVars, crVars, srVars, pdVars, rnVars, tmVars, rsVars>>
otherThanDg == <<nsVars, rqVars, seVars, sdVars, mtVars, rpVars, cmVars, cbVars, dnVars, dlVars, rgVars, crVars, srVars, pdVars, rnVars, tmVars, rsVars>>
otherThanDn == <<nsVars, rqVars, seVars, sdVars, mtVars, rpVars, cmVars, cbVars, dgVars, dlVars, rgVars, crVars, srVars, pdVars, rnVars, tmVars, rsVars>>
otherThanDl == <<nsVars, rqVars, seVars, sdVars, mtVars, rpVars, cmVars, cbVars, dgVars, dnVars, rgVars, crVars, srVars, pdVars, rnVars, tmVars, rsVars>>
otherThanRg == <<nsVars, rqVars, seVars, sdVars, mtVars, rpVars, cmVars, cbVars, dgVars, dnVars, dlVars, crVars, srVars, pdVars, rnVars, tmVars, rsVars>>
otherThanCr == <<nsVars, rqVars, seVars, sdVars, mtVars, rpVars, cmVars, cbVars, dgVars, dnVars, dlVars, rgVars, srVars, pdVars, rnVars, tmVars, rsVars>>
otherThanSr == <<nsVars, rqVars, seVars, sdVars, mtVars, rpVars, cmVars, cbVars, dgVars, dnVars, dlVars, rgVars, crVars, pdVars, rnVars, tmVars, rsVars>>
otherThanPd == <<nsVars, rqVars, seVars, sdVars, mtVars, rpVars, cmVars, cbVars, dgVars, dnVars, dlVars, rgVars, crVars, srVars, rnVars, tmVars, rsVars>>
otherThanRn == <<nsVars, rqVars, seVars, sdVars, mtVars, rpVars, cmVars, cbVars, dgVars, dnVars, dlVars, rgVars, crVars, srVars, pdVars, tmVars, rsVars>>
otherThanTm == <<nsVars, rqVars, seVars, sdVars, mtVars, rpVars, cmVars, cbVars, dgVars, dnVars, dlVars, rgVars, crVars, srVars, pdVars, rnVars, rsVars>>
otherThanRs == <<nsVars, rqVars, seVars, sdVars, mtVars, rpVars, cmVars, cbVars, dgVars, dnVars, dlVars, rgVars, crVars, srVars, pdVars, rnVars, tmVars>>

\* ========================================================================
\* Netstring stream parser
\* ========================================================================
NETSTRING_HEADER_SIZE == 4

\* bytes a payload may contain: the parser never looks inside a payload, and
\* payloads of different lengths keep the frames of a stream distinguishable
PayloadBytes == {1}

\* The local variable msg_len of data_received before its first assignment.
Unbound == [top |-> 2, low |-> 0]

\* struct.pack("I", n) for the small n the model sends: little endian uint32.
pack(n) == <<n % 256, (n \div 256) % 256, (n \div 65536) % 256, 0>>

\* struct.unpack("I", h)[0].  A uint32 does not fit TLC's integers, so the
\* value is kept as its top bit (2^31) and its low 31 bits.
unpack(h) ==
  [top |-> h[4] \div 128,
   low |-> h[1] + 256 * h[2] + 65536 * h[3] + 16777216 * (h[4] % 128)]

\* msg_len == 0
IsZero(n) == n.top = 0 /\ n.low = 0

\* a parser without the upper limit on msg_len
ExceedsMax_unlimited(n) == FALSE

\* msg_len > MAX_MSG_SIZE, with MAX_MSG_SIZE = 2 ** 31 - 1
ExceedsMax(n) == n.top = 1

Drop(s, k) == SubSeq(s, k + 1, Len(s))

\* a parser that drops an invalid header from the buffer when it closes
left_in_buffer_without_header(buf) == Drop(buf, NETSTRING_HEADER_SIZE)

\* "self.close(); break": the invalid header is not removed from
\* self._buffer
left_in_buffer(buf) == buf

\* The while loop of data_received, run on the buffer after extend(data).
\* msg_len is the function's local variable: Unbound on entry to the call.
RECURSIVE ParseLoop(_, _, _, _)
ParseLoop(buf, st, msg_len, out) ==
  LET stop(closed, raised) ==
        [buffer |-> buf, state |-> st, out |-> out,
         closed |-> closed, raised |-> raised]
  IN
  IF buf = <<>> THEN stop(FALSE, FALSE)
  ELSE IF st = "WAIT_HEADER" THEN
    IF Len(buf) >= NETSTRING_HEADER_SIZE THEN
      LET n == unpack(SubSeq(buf, 1, NETSTRING_HEADER_SIZE)) IN
      IF IsZero(n) \/ ExceedsMax(n)
        THEN [stop(TRUE, FALSE) EXCEPT !.buffer = left_in_buffer(buf)]
        ELSE ParseLoop(buf, "WAIT_PAYLOAD", n, out)
    ELSE stop(FALSE, FALSE)                          \* header incomplete
  ELSE \* WAIT_PAYLOAD
    IF msg_len = Unbound THEN stop(FALSE, TRUE)      \* UnboundLocalError
    ELSE IF Len(buf) - NETSTRING_HEADER_SIZE >= msg_len.low THEN
      ParseLoop(Drop(buf, NETSTRING_HEADER_SIZE + msg_len.low), "WAIT_HEADER",
                msg_len,
                Append(out, SubSeq(buf, NETSTRING_HEADER_SIZE + 1,
                                   NETSTRING_HEADER_SIZE + msg_len.low)))
    ELSE stop(FALSE, FALSE)                          \* payload incomplete

\* data_received with a loop that stops after the first extracted message
data_received_one_message(data) ==
  LET r == ParseLoop(ns_buffer \o data, ns_state, Unbound, <<>>) IN
  /\ ns_buffer' = r.buffer
  /\ ns_state' = r.state
  /\ ns_msgs' = ns_msgs \o (IF r.out = <<>> THEN <<>> ELSE <<Head(r.out)>>)
  /\ ns_closed' = (ns_closed \/ r.closed)
  /\ ns_raised' = (ns_raised \/ r.raised)

\* NetstringStreamProtocol.data_received(data)
data_received(data) ==
  LET r == ParseLoop(ns_buffer \o data, ns_state, Unbound, <<>>) IN
  /\ ns_buffer' = r.buffer
  /\ ns_state' = r.state
  /\ ns_msgs' = ns_msgs \o r.out
  /\ ns_closed' = (ns_closed \/ r.closed)
  /\ ns_raised' = (ns_raised \/ r.raised)

\* payloads of 1..MaxPayload bytes
Payloads == UNION {[1..n -> PayloadBytes] : n \in 1..MaxPayload}

\* what a peer can write: a well formed frame, or a bare header announcing
\* length 0 or a length above MAX_MSG_SIZE
Items == [kind : {"frame"}, payload : Payloads]
           \cup [kind : {"zero", "huge"}, payload : {<<>>}]

\* NetstringStreamProtocol.send(data) for a bytes object: what it hands to
\* transport.write.  There is no test on len(data).
netstring_send(data) == pack(Len(data)) \o data

Bytes(item) ==
  CASE item.kind = "frame" -> pack(Len(item.payload)) \o item.payload
    [] item.kind = "zero"  -> pack(0)
    [] item.kind = "huge"  -> <<0, 0, 0, 128>>
    [] item.kind = "empty" -> netstring_send(item.payload)

\* the bytes a sequence of items puts on the stream, in order
RECURSIVE Wire(_)
Wire(items) ==
  IF items = <<>> THEN <<>> ELSE Bytes(Head(items)) \o Wire(Tail(items))

\* the peer writes one more item
NsWrite(item) ==
  /\ Len(ns_sent) < MaxFrames
  /\ ns_sent' = Append(ns_sent, item)
  /\ ns_wire' = ns_wire \o Bytes(item)
  /\ UNCHANGED <<ns_buffer, ns_state, ns_msgs, ns_bytewise, ns_calls, ns_closed,
               ns_raised>>
  /\ UNCHANGED otherThanNs

\* the peer is a NetstringStreamProtocol and calls send(data) with a bytes
\* object of 0..MaxPayload bytes
NsSend(data) ==
  /\ Len(ns_sent) < MaxFrames
  /\ ns_sent' = Append(ns_sent,
                       [kind |-> IF data = <<>> THEN "empty" ELSE "frame",
                        payload |-> data])
  /\ ns_wire' = ns_wire \o netstring_send(data)
  /\ UNCHANGED <<ns_buffer, ns_state, ns_msgs, ns_bytewise, ns_calls, ns_closed,
                 ns_raised>>
  /\ UNCHANGED otherThanNs

\* the transport hands the next n bytes to data_received
NsDeliver(n) ==
  /\ n \in 1..Len(ns_wire)
  /\ data_received(SubSeq(ns_wire, 1, n))
  /\ ns_wire' = Drop(ns_wire, n)
  /\ ns_bytewise' = (ns_bytewise /\ n = 1)
  /\ ns_calls' = ns_calls + 1
  /\ UNCHANGED ns_sent
  /\ UNCHANGED otherThanNs

NsInit ==
  /\ ns_buffer = <<>>
  /\ ns_state = "WAIT_HEADER"
  /\ ns_wire = <<>>
  /\ ns_sent = <<>>
  /\ ns_msgs = <<>>
  /\ ns_bytewise = TRUE
  /\ ns_calls = 0
  /\ ns_closed = FALSE
  /\ ns_raised = FALSE



\* ========================================================================
\* AMQP requester
\* ========================================================================
\* correlation ids: one fresh uuid4 per request() call
Cids == 1..MaxRequests

\* message.correlation_id is None
NoCid == 0

\* Requester(prefetch_count=1): the broker holds the next delivery back until
\* the previous one is acked
prefetch_count == 1

\* states of an asyncio.Future: not created, pending, or done with an outcome
Terminal == {"result", "timeout", "undeliverable", "cancelled", "closed",
             "decode_error"}

\* Future.set_result / Future.set_exception: the first call settles the
\* future and schedules its done callbacks with call_soon; a call on a
\* future that is already done raises InvalidStateError and changes nothing.
set_outcome(cid, outcome) ==
  IF slot[cid] = "pending"
    THEN /\ slot' = [slot EXCEPT ![cid] = outcome]
         /\ done_callbacks' = done_callbacks \cup {cid}
         /\ rq_raised' = rq_raised
    ELSE /\ rq_raised' = rq_raised \cup {"InvalidStateError"}
         /\ UNCHANGED <<slot, done_callbacks>>

\* _discard_pending_responses that leaves the pending futures alone
discard_pending_responses_skipped(reason) ==
  UNCHANGED <<slot, done_callbacks>>

\* Requester._discard_pending_responses(reason): every future of the table
\* that is not done gets the exception; the table itself is not touched.
discard_pending_responses(reason) ==
  /\ slot' = [c \in Cids |->
                IF c \in futures /\ slot[c] = "pending" THEN reason ELSE slot[c]]
  /\ done_callbacks' =
       done_callbacks \cup {c \in futures : slot[c] = "pending"}

\* Requester.start, up to the point where the response queue is consumed
RqStart ==
  /\ ~response_queue
  /\ rq_stop_pc = "idle"
  /\ rq_events < MaxEvents
  /\ rq_events' = rq_events + 1
  /\ response_queue' = TRUE
  /\ channel' = "open"
  /\ UNCHANGED <<futures, slot, done_callbacks, req_pc, observed, published,
                 acking, rq_stop_pc, rq_raised>>
  /\ UNCHANGED otherThanRq

\* Requester.request up to "await self.exchange.publish": create_future,
\* encode_payload (which may raise), the assert on response_queue.
RqRequest(cid, encodes) ==
  /\ req_pc[cid] = "idle"
  /\ \A c \in Cids : c < cid => req_pc[c] # "idle"
  /\ futures' = futures \cup {cid}                          \* create_future
  /\ slot' = [slot EXCEPT ![cid] = "pending"]
  /\ IF encodes /\ response_queue
       THEN /\ req_pc' = [req_pc EXCEPT ![cid] = "publishing"]
            /\ published' = published \cup {cid}
       ELSE /\ req_pc' = [req_pc EXCEPT ![cid] = "raised"]
            /\ published' = published
  /\ UNCHANGED <<done_callbacks, observed, acking, response_queue, channel,
                 rq_stop_pc, rq_events, rq_raised>>
  /\ UNCHANGED otherThanRq

\* "return await future": the caller sees the outcome once the future is done
await_future(cid) ==
  IF slot[cid] \in Terminal
    THEN /\ req_pc' = [req_pc EXCEPT ![cid] = "returned"]
         /\ observed' = [observed EXCEPT ![cid] = slot[cid]]
    ELSE /\ req_pc' = [req_pc EXCEPT ![cid] = "waiting"]
         /\ observed' = observed

\* exchange.publish returns, request() goes on to await its future
RqPublished(cid) ==
  /\ req_pc[cid] = "publishing"
  /\ await_future(cid)
  /\ UNCHANGED <<futures, slot, done_callbacks, published, acking,
                 response_queue, channel, rq_stop_pc, rq_events, rq_raised>>
  /\ UNCHANGED otherThanRq

\* exchange.publish raises, request() propagates the exception
RqPublishFails(cid) ==
  /\ req_pc[cid] = "publishing"
  /\ req_pc' = [req_pc EXCEPT ![cid] = "raised"]
  /\ UNCHANGED <<futures, slot, done_callbacks, observed, published, acking,
                 response_queue, channel, rq_stop_pc, rq_events, rq_raised>>
  /\ UNCHANGED otherThanRq

\* The done callbacks of a future, run by the loop after the future was
\* settled: Requester.__remove_future, then the wake-up of "await future".
\* a done callback that leaves the entry in the table
remove_future_kept(cid) == futures' = futures

remove_future(cid) == futures' = futures \ {cid}

RqDoneCallbacks(cid) ==
  /\ cid \in done_callbacks
  /\ done_callbacks' = done_callbacks \ {cid}
  /\ remove_future(cid)
  /\ IF req_pc[cid] = "waiting"
       THEN /\ req_pc' = [req_pc EXCEPT ![cid] = "returned"]
            /\ observed' = [observed EXCEPT ![cid] = slot[cid]]
       ELSE UNCHANGED <<req_pc, observed>>
  /\ UNCHANGED <<slot, published, acking, response_queue, channel, rq_stop_pc,
                 rq_events, rq_raised>>
  /\ UNCHANGED otherThanRq

\* messages the broker can put on the response queue: a reply, a request
\* that came back through the dead letter exchange (x-death header), a reply
\* whose body does not decode; with the correlation id of a request, or none
Responses == [cid : Cids \cup {NoCid}, kind : {"reply", "x-death", "garbled"}]

\* Requester.on_response_message, first part: the broker delivers a message
\* and the handler suspends in "await message.ack()"
RqDeliver(m) ==
  /\ response_queue
  /\ rq_stop_pc \in {"idle", "unbind"}
  /\ rq_events < MaxEvents
  /\ m.cid \in published \cup {NoCid}
  /\ Cardinality(acking) < prefetch_count
  /\ rq_events' = rq_events + 1
  /\ acking' = acking \cup {m}
  /\ UNCHANGED <<futures, slot, done_callbacks, req_pc, observed, published,
                 response_queue, channel, rq_stop_pc, rq_raised>>
  /\ UNCHANGED otherThanRq

\* on_response_message without the test for the x-death header: a returned
\* request is decoded as if it were a reply
on_response_message_decodes(m) ==
  IF m.cid = NoCid \/ m.cid \notin futures
    THEN UNCHANGED <<futures, slot, done_callbacks, rq_raised>>
    ELSE /\ futures' = futures \ {m.cid}
         /\ set_outcome(m.cid,
                        CASE m.kind = "garbled" -> "decode_error"
                          [] OTHER -> "result")

\* Requester.on_response_message, after the ack
on_response_message(m) ==
  IF m.cid = NoCid \/ m.cid \notin futures
    THEN \* no correlation id, or futures.pop() gave None: warning, return
         UNCHANGED <<futures, slot, done_callbacks, rq_raised>>
    ELSE /\ futures' = futures \ {m.cid}                    \* futures.pop
         /\ set_outcome(m.cid,
                        CASE m.kind = "x-death" -> "timeout"
                          [] m.kind = "garbled" -> "decode_error"
                          [] m.kind = "reply"   -> "result")

RqAcked(m) ==
  /\ m \in acking
  /\ acking' = acking \ {m}
  /\ on_response_message(m)
  /\ UNCHANGED <<req_pc, observed, published, response_queue, channel, rq_stop_pc,
                 rq_events>>
  /\ UNCHANGED otherThanRq

\* _on_request_returned failing every pending request instead of the
\* returned one
on_request_returned_all(cid) ==
  /\ futures' = futures \ {cid}
  /\ discard_pending_responses("undeliverable")
  /\ rq_raised' = rq_raised

\* Requester._on_request_returned: the broker could not route the request
on_request_returned(cid) ==
  IF cid \notin futures \/ slot[cid] # "pending"
    THEN /\ futures' = futures \ {cid}                      \* futures.pop
         /\ UNCHANGED <<slot, done_callbacks, rq_raised>>
    ELSE /\ futures' = futures \ {cid}
         /\ set_outcome(cid, "undeliverable")

\* no queue is bound for the routing key of a request published with
\* mandatory=True: the broker returns it and the channel calls the on-return
\* callback
RqReturned(cid) ==
  /\ channel = "open"
  /\ cid \in published
  /\ rp[cid] = "none"
  /\ rq_events < MaxEvents
  /\ rq_events' = rq_events + 1
  /\ rp' = [rp EXCEPT ![cid] = "returned"]
  /\ on_request_returned(cid)
  /\ UNCHANGED <<req_pc, observed, published, acking, response_queue, channel,
                 rq_stop_pc>>
  /\ UNCHANGED inbox
  /\ UNCHANGED otherThanRqRp

\* Requester._on_channel_closed(reason), called when the channel closes
RqChannelClosed ==
  /\ channel = "open"
  /\ rq_events < MaxEvents
  /\ rq_events' = rq_events + 1
  /\ channel' = "closed"
  /\ discard_pending_responses("closed")
  /\ UNCHANGED <<futures, req_pc, observed, published, acking, response_queue,
                 rq_stop_pc, rq_raised>>
  /\ UNCHANGED otherThanRq

\* Requester.stop: enters, and suspends cancelling the consumer and
\* unbinding the response queue
RqStop ==
  /\ rq_stop_pc = "idle"
  /\ rq_events < MaxEvents
  /\ rq_events' = rq_events + 1
  /\ rq_stop_pc' = IF response_queue THEN "unbind" ELSE "close"
  /\ UNCHANGED <<futures, slot, done_callbacks, req_pc, observed, published,
                 acking, response_queue, channel, rq_raised>>
  /\ UNCHANGED otherThanRq

\* Requester.stop resumes after the unbind: cancels the outstanding waiters
\* and suspends deleting the response queue
RqStopDiscard ==
  /\ rq_stop_pc = "unbind"
  /\ rq_stop_pc' = "delete"
  /\ discard_pending_responses("cancelled")
  /\ UNCHANGED <<futures, req_pc, observed, published, acking, response_queue,
                 channel, rq_events, rq_raised>>
  /\ UNCHANGED otherThanRq

\* Requester.stop resumes after the delete: response_queue = None
RqStopDeleted ==
  /\ rq_stop_pc = "delete"
  /\ rq_stop_pc' = "close"
  /\ response_queue' = FALSE
  /\ UNCHANGED <<futures, slot, done_callbacks, req_pc, observed, published,
                 acking, channel, rq_events, rq_raised>>
  /\ UNCHANGED otherThanRq

\* Requester.stop, last part: closes the channel if it is open (its close
\* callback _on_channel_closed runs), then forgets channel and connection
RqStopClose ==
  /\ rq_stop_pc = "close"
  /\ rq_stop_pc' = "idle"
  /\ channel' = "none"
  /\ IF channel = "open"
       THEN discard_pending_responses("closed")
       ELSE UNCHANGED <<slot, done_callbacks>>
  /\ UNCHANGED <<futures, req_pc, observed, published, acking, response_queue,
                 rq_events, rq_raised>>
  /\ UNCHANGED otherThanRq

RqInit ==
  /\ futures = {}
  /\ slot = [c \in Cids |-> "unused"]
  /\ done_callbacks = {}
  /\ req_pc = [c \in Cids |-> "idle"]
  /\ observed = [c \in Cids |-> "none"]
  /\ published = {}
  /\ acking = {}
  /\ response_queue = FALSE
  /\ channel = "none"
  /\ rq_stop_pc = "idle"
  /\ rq_events = 0
  /\ rq_raised = {}

\* ========================================================================
\* Stream endpoint
\* ========================================================================
\* every task and every transport is created by a start call or after a
\* connection was established, so these ranges are never exhausted
TaskIds == 1..MaxStimuli
ConnIds == 1..MaxStimuli

\* self._backoff is a float; the model counts in eighths of a second, which
\* represents exactly every value the recurrence takes up to the maximum
Unit == 8

\* StreamEndpoint(backoff_maximum=10)
backoff_maximum == 10

Min(a, b) == IF a <= b THEN a ELSE b

\* min(self._backoff_maximum, self._backoff + (self._backoff / 2) + 1)
next_backoff(b) ==
  IF 3 * b + 2 * Unit >= 2 * backoff_maximum * Unit
    THEN backoff_maximum * Unit
    ELSE (3 * b + 2 * Unit) \div 2

\* A _connect coroutine run as a task.  pc is where it is suspended:
\*   "new"             created by create_task, first step not yet run
\*   "disconnect"      in "await asyncio.sleep(0)" of _disconnect_peers
\*   "backoff"         in "await self._backoff_task", the sleep is pending
\*   "woken"           the sleep has elapsed, the task is scheduled to resume
\*   "connecting"      in create_connection, no transport yet
\*   "made"            in create_connection, the transport exists and its
\*                     connection_made is scheduled
\*   "up"              connection_made has run, the task is scheduled to resume
\*   "cancelled", "made_cancelled", "up_cancelled"
\*                     as "connecting", "made", "up", with a CancelledError
\*                     on its way to the task
NoTask == [pc |-> "free", todo |-> {}, conn |-> 0]
NewTask == [pc |-> "new", todo |-> {}, conn |-> 0]

FreeIds(tk) == {t \in TaskIds : tk[t].pc = "free"}
NextId(tk) == CHOOSE t \in FreeIds(tk) : \A u \in FreeIds(tk) : t <= u

FreeConns(cn) == {c \in ConnIds : cn[c] = "free"}
NextConn(cn) == CHOOSE c \in FreeConns(cn) : \A d \in FreeConns(cn) : c <= d

\* Task.cancel() on self._connect_task.  A task that has not started, or that
\* waits in sleep(0) or in the backoff wait, ends without running any more
\* code of _connect ("except asyncio.CancelledError: return"); a task inside
\* create_connection gets the CancelledError at its next step.
Cancel(tk, t) ==
  IF t = 0 THEN tk
  ELSE CASE tk[t].pc \in {"new", "disconnect", "backoff", "woken"} ->
              [tk EXCEPT ![t] = NoTask]
         [] tk[t].pc = "connecting" -> [tk EXCEPT ![t].pc = "cancelled"]
         [] tk[t].pc = "made" -> [tk EXCEPT ![t].pc = "made_cancelled"]
         [] tk[t].pc = "up" -> [tk EXCEPT ![t].pc = "up_cancelled"]
         [] OTHER -> tk

\* Task.cancel() on self._backoff_task: the sleep of connect task t.  A
\* pending sleep is cancelled and the task awaiting it returns; a sleep
\* that has elapsed is done and cancel() does nothing.
CancelSleep(tk, t) ==
  IF t # 0 /\ tk[t].pc = "backoff" THEN [tk EXCEPT ![t] = NoTask] ELSE tk

\* BaseStreamProtocol.close(): transport.close() if the protocol still has a
\* transport; connection_lost is called by the loop later
Close(cn, c) == IF cn[c] = "open" THEN [cn EXCEPT ![c] = "closing"] ELSE cn

\* StreamEndpoint.start(reconnect=r)
Start(r) ==
  /\ stimuli < MaxStimuli
  /\ stimuli' = stimuli + 1
  /\ IF running
       THEN /\ ev' = {"start"}
            /\ UNCHANGED <<is_server, py37, start_reconnect>>
            /\ UNCHANGED <<running, reconnect, backoff,
                           backoff_task, connect_task, listener, listener_addr,
                           peers, conn, task, start_pc, stop_pc, stop_todo,
                           stopped, bind_failed, started_calls, attempts,
                           last_wait>>
            /\ UNCHANGED otherThanSe
       ELSE /\ start_pc = "idle"
            /\ reconnect' = r
            /\ running' = TRUE
            /\ IF is_server
                 THEN /\ start_pc' = "listening"        \* await self._listen()
                      /\ UNCHANGED <<task, connect_task>>
                 ELSE /\ task' = [task EXCEPT ![NextId(task)] = NewTask]
                      /\ connect_task' = NextId(task)
                      /\ start_pc' = start_pc
            /\ ev' = {"start"}
            /\ stopped' = FALSE
            /\ bind_failed' = FALSE
            /\ started_calls' = 0
            /\ attempts' = 0
            /\ last_wait' = 0
            /\ start_reconnect' = r
            /\ UNCHANGED <<is_server, py37, backoff, backoff_task, listener,
                           listener_addr, peers, conn, stop_pc, stop_todo>>
            /\ UNCHANGED otherThanSe

\* StreamEndpoint._listen: create_server succeeds
ListenOk ==
  /\ start_pc = "listening"
  /\ start_pc' = "idle"
  /\ listener' = "open"
  /\ listener_addr' = TRUE
  /\ started_calls' = Min(started_calls + 1, 2)
  /\ ev' = {"on_started"}
  /\ UNCHANGED <<is_server, py37, start_reconnect, stimuli>>
  /\ UNCHANGED <<running, reconnect, backoff, backoff_task,
                 connect_task, peers, conn, task, stop_pc, stop_todo, stopped,
                 bind_failed, attempts, last_wait>>
  /\ UNCHANGED otherThanSe

\* StreamEndpoint._listen: create_server raises, _listen and start raise
ListenFails ==
  /\ start_pc = "listening"
  /\ start_pc' = "idle"
  /\ bind_failed' = TRUE
  /\ ev' = {"start_raised"}
  /\ UNCHANGED <<is_server, py37, start_reconnect, stimuli>>
  /\ UNCHANGED <<running, reconnect, backoff, backoff_task,
                 connect_task, listener, listener_addr, peers, conn, task,
                 stop_pc, stop_todo, stopped, started_calls, attempts,
                 last_wait>>
  /\ UNCHANGED otherThanSe

\* StreamEndpoint.stop from "await self._disconnect_peers()" on: close the
\* next peer of the list and suspend in sleep(0); after the last one reset
\* the attributes and call on_stopped.
StopContinue(S, cn, e) ==
  IF S = {}
    THEN /\ conn' = cn
         /\ stop_pc' = "idle"
         /\ stop_todo' = {}
         /\ backoff' = 0
         /\ running' = FALSE
         /\ stopped' = TRUE
         /\ ev' = e \cup {"on_stopped"}
    ELSE \E c \in S :
         /\ conn' = Close(cn, c)
         /\ stop_pc' = "disconnect"
         /\ stop_todo' = S \ {c}
         /\ ev' = e
         /\ UNCHANGED <<backoff, running, stopped>>

\* StreamEndpoint.stop, up to its first suspension
Stop ==
  /\ stop_pc = "idle"
  /\ stimuli < MaxStimuli
  /\ stimuli' = stimuli + 1
  /\ IF ~running
       THEN /\ ev' = {"stop"}
            /\ UNCHANGED <<reconnect, backoff, backoff_task, connect_task,
                           listener, conn, task, stop_pc, stop_todo, running,
                           stopped>>
       ELSE IF is_server
         THEN /\ UNCHANGED <<reconnect, backoff_task, connect_task, task>>
              /\ IF listener = "open"
                   THEN /\ listener' = "closed"      \* close(), await wait_closed()
                        /\ stop_pc' = "wait_closed"
                        /\ ev' = {"stop"}
                        /\ UNCHANGED <<backoff, conn, stop_todo, running, stopped>>
                   ELSE /\ listener' = "none"
                        /\ StopContinue(peers, conn, {"stop"})
         ELSE /\ reconnect' = FALSE
              /\ task' = Cancel(CancelSleep(task, backoff_task), connect_task)
              /\ backoff_task' = 0
              /\ connect_task' = 0
              /\ listener' = listener
              /\ StopContinue(peers, conn, {"stop"})
  /\ UNCHANGED <<is_server, py37, start_reconnect>>
  /\ UNCHANGED <<listener_addr, peers, start_pc, bind_failed,
                 started_calls, attempts, last_wait>>
  /\ UNCHANGED otherThanSe

\* StreamEndpoint.stop of a server resumes after wait_closed()
StopWaitClosed ==
  /\ stop_pc = "wait_closed"
  /\ listener' = "none"
  /\ StopContinue(peers, conn, {})
  /\ UNCHANGED <<is_server, py37, start_reconnect, stimuli>>
  /\ UNCHANGED <<reconnect, backoff_task, connect_task,
                 listener_addr, peers, task, start_pc, bind_failed,
                 started_calls, attempts, last_wait>>
  /\ UNCHANGED otherThanSe

\* StreamEndpoint.stop resumes after a sleep(0) of _disconnect_peers
StopDisconnect ==
  /\ stop_pc = "disconnect"
  /\ StopContinue(stop_todo, conn, {})
  /\ UNCHANGED <<is_server, py37, start_reconnect, stimuli>>
  /\ UNCHANGED <<reconnect, backoff_task, connect_task,
                 listener, listener_addr, peers, task, start_pc, bind_failed,
                 started_calls, attempts, last_wait>>
  /\ UNCHANGED otherThanSe

\* StreamEndpoint._connect after _disconnect_peers: the backoff wait is
\* started if self._backoff is not zero, else the backoff is advanced and
\* create_connection is called.
Prepare(t) ==
  /\ IF backoff > 0
       THEN /\ task' = [task EXCEPT ![t] = [pc |-> "backoff", todo |-> {}, conn |-> 0]]
            /\ backoff_task' = t
            /\ backoff' = backoff
            /\ ev' = {"wait"}
       ELSE /\ task' = [task EXCEPT ![t] = [pc |-> "connecting", todo |-> {}, conn |-> 0]]
            /\ backoff_task' = backoff_task
            /\ backoff' = next_backoff(backoff)
            /\ ev' = {"attempt"}
  /\ attempts' = Min(attempts + 1, MaxAttempts)
  /\ last_wait' = backoff

\* StreamEndpoint._connect in "await self._disconnect_peers()"
TaskContinue(t, S) ==
  IF S = {}
    THEN /\ Prepare(t)
         /\ conn' = conn
    ELSE \E c \in S :
         /\ conn' = Close(conn, c)
         /\ task' = [task EXCEPT ![t] = [pc |-> "disconnect", todo |-> S \ {c}, conn |-> 0]]
         /\ ev' = {}
         /\ UNCHANGED <<backoff, backoff_task, attempts, last_wait>>

\* first step of a _connect task
TaskBegin(t) ==
  /\ task[t].pc = "new"
  /\ TaskContinue(t, peers)
  /\ UNCHANGED <<is_server, py37, start_reconnect, stimuli>>
  /\ UNCHANGED <<running, reconnect, connect_task, listener,
                 listener_addr, peers, start_pc, stop_pc, stop_todo, stopped,
                 bind_failed, started_calls>>
  /\ UNCHANGED otherThanSe

\* a _connect task resumes after a sleep(0) of _disconnect_peers
TaskDisconnect(t) ==
  /\ task[t].pc = "disconnect"
  /\ TaskContinue(t, task[t].todo)
  /\ UNCHANGED <<is_server, py37, start_reconnect, stimuli>>
  /\ UNCHANGED <<running, reconnect, connect_task, listener,
                 listener_addr, peers, start_pc, stop_pc, stop_todo, stopped,
                 bind_failed, started_calls>>
  /\ UNCHANGED otherThanSe

\* the backoff sleep of a _connect task elapses
TimerFires(t) ==
  /\ task[t].pc = "backoff"
  /\ task' = [task EXCEPT ![t].pc = "woken"]
  /\ ev' = {}
  /\ UNCHANGED <<is_server, py37, start_reconnect, stimuli>>
  /\ UNCHANGED <<running, reconnect, backoff, backoff_task,
                 connect_task, listener, listener_addr, peers, conn, start_pc,
                 stop_pc, stop_todo, stopped, bind_failed, started_calls,
                 attempts, last_wait>>
  /\ UNCHANGED otherThanSe

\* a _connect task resumes after its backoff wait
TaskWake(t) ==
  /\ task[t].pc = "woken"
  /\ backoff_task' = 0
  /\ backoff' = next_backoff(backoff)
  /\ task' = [task EXCEPT ![t].pc = "connecting"]
  /\ ev' = {"attempt"}
  /\ UNCHANGED <<is_server, py37, start_reconnect, stimuli>>
  /\ UNCHANGED <<running, reconnect, connect_task, listener,
                 listener_addr, peers, conn, start_pc, stop_pc, stop_todo,
                 stopped, bind_failed, started_calls, attempts, last_wait>>
  /\ UNCHANGED otherThanSe

\* "if _protocol is None and self._reconnect": a new _connect task replaces
\* the one that ends here
Respawn(t) ==
  IF reconnect
    THEN /\ task' = [task EXCEPT ![t] = NewTask]
         /\ connect_task' = t
    ELSE /\ task' = [task EXCEPT ![t] = NoTask]
         /\ connect_task' = connect_task

\* create_connection raises ConnectionRefusedError / OSError
ConnectRefused(t) ==
  /\ task[t].pc = "connecting"
  /\ Respawn(t)
  /\ ev' = IF reconnect THEN {"refused", "reconnect"} ELSE {"refused"}
  /\ UNCHANGED <<is_server, py37, start_reconnect, stimuli>>
  /\ UNCHANGED <<running, reconnect, backoff, backoff_task,
                 listener, listener_addr, peers, conn, start_pc, stop_pc,
                 stop_todo, stopped, bind_failed, started_calls, attempts,
                 last_wait>>
  /\ UNCHANGED otherThanSe

\* create_connection: the socket is connected, the transport is created
\* (which schedules connection_made) and the task waits for it
TransportMade(t) ==
  /\ task[t].pc = "connecting"
  /\ stimuli < MaxStimuli
  /\ stimuli' = stimuli + 1
  /\ conn' = [conn EXCEPT ![NextConn(conn)] = "made"]
  /\ task' = [task EXCEPT ![t] = [pc |-> "made", todo |-> {}, conn |-> NextConn(conn)]]
  /\ ev' = {}
  /\ UNCHANGED <<is_server, py37, start_reconnect>>
  /\ UNCHANGED <<running, reconnect, backoff, backoff_task,
                 connect_task, listener, listener_addr, peers, start_pc,
                 stop_pc, stop_todo, stopped, bind_failed, started_calls,
                 attempts, last_wait>>
  /\ UNCHANGED otherThanSe

\* the listener of a server accepts a connection: a transport is created,
\* which schedules connection_made
Accept ==
  /\ is_server
  /\ listener = "open"
  /\ stimuli < MaxStimuli
  /\ stimuli' = stimuli + 1
  /\ conn' = [conn EXCEPT ![NextConn(conn)] = "made"]
  /\ ev' = {}
  /\ UNCHANGED <<is_server, py37, start_reconnect>>
  /\ UNCHANGED <<running, reconnect, backoff, backoff_task,
                 connect_task, listener, listener_addr, peers, task, start_pc,
                 stop_pc, stop_todo, stopped, bind_failed, started_calls,
                 attempts, last_wait>>
  /\ UNCHANGED otherThanSe

\* on_peer_available without the assignment to self._peers
on_peer_available_forgotten(c) == peers' = peers

\* StreamEndpoint.on_peer_available: self._peers[peer_id] = prot
on_peer_available(c) == peers' = peers \cup {c}

\* BaseStreamProtocol.connection_made -> StreamEndpoint.on_peer_available;
\* the task that waits in create_connection is scheduled to resume
ConnectionMade(c) ==
  /\ conn[c] = "made"
  /\ conn' = [conn EXCEPT ![c] = "open"]
  /\ on_peer_available(c)
  /\ task' = [t \in TaskIds |->
                IF task[t].conn = c /\ task[t].pc = "made"
                  THEN [task[t] EXCEPT !.pc = "up"]
                ELSE IF task[t].conn = c /\ task[t].pc = "made_cancelled"
                  THEN [task[t] EXCEPT !.pc = "up_cancelled"]
                ELSE task[t]]
  /\ ev' = {"on_peer_available"}
  /\ UNCHANGED <<is_server, py37, start_reconnect, stimuli>>
  /\ UNCHANGED <<running, reconnect, backoff, backoff_task,
                 connect_task, listener, listener_addr, start_pc, stop_pc,
                 stop_todo, stopped, bind_failed, started_calls, attempts,
                 last_wait>>
  /\ UNCHANGED otherThanSe

\* StreamEndpoint._connect resumes from create_connection with a protocol
ConnectDone(t) ==
  /\ task[t].pc = "up"
  /\ backoff' = 0
  /\ connect_task' = 0
  /\ task' = [task EXCEPT ![t] = NoTask]
  /\ started_calls' = Min(started_calls + 1, 2)
  /\ attempts' = 0
  /\ ev' = {"on_started"}
  /\ UNCHANGED <<is_server, py37, start_reconnect, stimuli>>
  /\ UNCHANGED <<running, reconnect, backoff_task, listener,
                 listener_addr, peers, conn, start_pc, stop_pc, stop_todo,
                 stopped, bind_failed, last_wait>>
  /\ UNCHANGED otherThanSe

\* StreamEndpoint._connect resumes from create_connection with a
\* CancelledError; create_connection closes the transport it had made.
\* Before Python 3.8 the "except Exception" clause of _connect catches it
\* and _connect goes on to "if _protocol is None and self._reconnect".
TaskCancelled(t) ==
  /\ task[t].pc \in {"cancelled", "up_cancelled"}
  /\ conn' = IF task[t].pc = "up_cancelled" THEN Close(conn, task[t].conn) ELSE conn
  /\ IF py37
       THEN /\ Respawn(t)
            /\ ev' = IF reconnect THEN {"reconnect"} ELSE {}
       ELSE /\ task' = [task EXCEPT ![t] = NoTask]
            /\ connect_task' = connect_task
            /\ ev' = {}
  /\ UNCHANGED <<is_server, py37, start_reconnect, stimuli>>
  /\ UNCHANGED <<running, reconnect, backoff, backoff_task,
                 listener, listener_addr, peers, start_pc, stop_pc, stop_todo,
                 stopped, bind_failed, started_calls, attempts, last_wait>>
  /\ UNCHANGED otherThanSe

\* on_peer_unavailable without the "if self._reconnect" block
on_peer_unavailable_no_reconnect(c) ==
  /\ peers' = peers \ {c}
  /\ task' = [t \in TaskIds |-> [task[t] EXCEPT !.todo = @ \ {c}]]
  /\ connect_task' = connect_task
  /\ ev' = {"on_peer_unavailable"}

\* StreamEndpoint.on_peer_unavailable: the entry is deleted, the user's
\* callback is invoked and a client with self._reconnect set creates a new
\* _connect task
on_peer_unavailable(c) ==
  /\ peers' = peers \ {c}
  /\ IF ~is_server /\ reconnect
       THEN /\ task' = [t \in TaskIds |->
                          IF t = NextId(task) THEN NewTask
                          ELSE [task[t] EXCEPT !.todo = @ \ {c}]]
            /\ connect_task' = NextId(task)
            /\ ev' = {"on_peer_unavailable", "reconnect"}
       ELSE /\ task' = [t \in TaskIds |-> [task[t] EXCEPT !.todo = @ \ {c}]]
            /\ connect_task' = connect_task
            /\ ev' = {"on_peer_unavailable"}

\* BaseStreamProtocol.connection_lost -> StreamEndpoint.on_peer_unavailable,
\* for a connection the remote end dropped or the endpoint closed.  The
\* protocol forgets its transport, so a later close() of it does nothing.
ConnectionLost(c) ==
  /\ conn[c] \in {"open", "closing"}
  /\ \A t \in TaskIds : ~(task[t].conn = c /\ task[t].pc \in {"up", "up_cancelled"})
  /\ conn' = [conn EXCEPT ![c] = "free"]
  /\ on_peer_unavailable(c)
  /\ stop_todo' = stop_todo \ {c}
  /\ UNCHANGED <<is_server, py37, start_reconnect, stimuli>>
  /\ UNCHANGED <<running, reconnect, backoff, backoff_task,
                 listener, listener_addr, start_pc, stop_pc, stopped,
                 bind_failed, started_calls, attempts, last_wait>>
  /\ UNCHANGED otherThanSe

\* StreamEndpoint.bindings
bindings == IF listener_addr THEN {"listener_addr"} ELSE {}

\* StreamEndpoint.connections
connections == peers

SeIdle ==
  /\ running = FALSE
  /\ reconnect = FALSE
  /\ backoff = 0
  /\ backoff_task = 0
  /\ connect_task = 0
  /\ listener = "none"
  /\ listener_addr = FALSE
  /\ peers = {}
  /\ conn = [c \in ConnIds |-> "free"]
  /\ task = [t \in TaskIds |-> NoTask]
  /\ start_pc = "idle"
  /\ stop_pc = "idle"
  /\ stop_todo = {}
  /\ ev = {}
  /\ stopped = FALSE
  /\ bind_failed = FALSE
  /\ started_calls = 0
  /\ attempts = 0
  /\ last_wait = 0
  /\ stimuli = 0
  /\ start_reconnect = FALSE

\* a StreamServer or a StreamClient, on either kind of Python
SeInit ==
  /\ is_server \in BOOLEAN
  /\ py37 \in BOOLEAN
  /\ SeIdle

\* the variables of the stream endpoint in the other specifications
SeUnused ==
  /\ is_server = FALSE
  /\ py37 = FALSE
  /\ SeIdle

\* ========================================================================
\* StreamEndpoint.send
\* ========================================================================
\* peer_id=None
NoPeer == 0

NoWrites == [c \in ConnIds |-> 0]

NoSend == [peer_id |-> NoPeer, encodes |-> TRUE, written |-> NoWrites,
           raised |-> "none", called |-> FALSE]

\* peer_ids = list(self._peers), whatever peer_id is
peer_ids_all(peer_id) == peers

\* peer_ids = [peer_id] if peer_id else list(self._peers)
peer_ids(peer_id) == IF peer_id # NoPeer THEN {peer_id} ELSE peers

\* "for _peer_id in peer_ids: prot = self._peers[_peer_id]; prot.send(...)":
\* one transport.write per peer; a peer_id that is not a key of the peer map
\* raises KeyError
RECURSIVE write_loop(_, _)
\* a loop that writes to every id it is given, in the map or not
write_loop_unchecked(ids, w) == [written |-> [c \in ConnIds |-> IF c \in ids THEN 1 ELSE w[c]], raised |-> "none"]

write_loop(ids, w) ==
  IF ids = {} THEN [written |-> w, raised |-> "none"]
  ELSE LET c == CHOOSE x \in ids : \A y \in ids : x <= y
       IN IF c \notin peers
            THEN [written |-> w, raised |-> "KeyError"]
            ELSE write_loop(ids \ {c}, [w EXCEPT ![c] = @ + 1])

\* StreamEndpoint.send(data, peer_id=peer_id); encodes says whether
\* serialization.dumps accepts the data
send(peer_id, encodes) ==
  IF peers = {}
    THEN [written |-> NoWrites, raised |-> "none"]      \* "No peers to send message to!"
  ELSE IF ~encodes
    THEN [written |-> NoWrites, raised |-> "Exception"]
  ELSE write_loop(peer_ids(peer_id), NoWrites)

Send(peer_id, encodes) ==
  /\ last_send' = [peer_id |-> peer_id, encodes |-> encodes,
                   written |-> send(peer_id, encodes).written,
                   raised |-> send(peer_id, encodes).raised,
                   called |-> TRUE]
  /\ UNCHANGED otherThanSd

SdInit == last_send = NoSend

\* ========================================================================
\* MTI stream parser
\* ========================================================================
\* struct.calcsize("II")
MTI_HEADER_SIZE == 8

\* message type identifiers the peer uses
MtiTypes == {42}

\* struct.pack("II", n, t)
mti_pack(n, t) == pack(n) \o pack(t)

\* what a peer can write: a frame with a payload of 0..MaxPayload bytes, or
\* a bare header announcing a length above MAX_MSG_SIZE
MtiItems == [kind : {"frame"}, payload : Payloads \cup {<<>>}, id : MtiTypes]
              \cup [kind : {"huge"}, payload : {<<>>}, id : MtiTypes]

MtiBytes(item) ==
  CASE item.kind = "frame" -> mti_pack(Len(item.payload), item.id) \o item.payload
    [] item.kind = "huge"  -> <<0, 0, 0, 128>> \o pack(item.id)

\* The while loop of MtiStreamProtocol.data_received, run on the buffer after
\* extend(data).  msg_len and msg_id are local variables of the function:
\* Unbound on entry to the call.
RECURSIVE MtiParseLoop(_, _, _, _, _)
MtiParseLoop(buf, st, msg_len, msg_id, out) ==
  LET stop(closed, raised, hung) ==
        [buffer |-> buf, state |-> st, out |-> out,
         closed |-> closed, raised |-> raised, hung |-> hung]
  IN
  IF buf = <<>> THEN stop(FALSE, FALSE, FALSE)
  ELSE IF st = "WAIT_HEADER" THEN
    IF Len(buf) >= MTI_HEADER_SIZE THEN
      LET n == unpack(SubSeq(buf, 1, 4))
          t == unpack(SubSeq(buf, 5, 8))
      IN
      IF IsZero(n) THEN
        \* on_message(self, identity, b"", identifier=msg_id)
        MtiParseLoop(Drop(buf, MTI_HEADER_SIZE), "WAIT_HEADER", n, t,
                     Append(out, [payload |-> <<>>, option |-> "identifier",
                                  id |-> t.low]))
      ELSE IF ExceedsMax(n) THEN
        \* self.close() without a break: the loop runs again on the same
        \* buffer in the same state, for ever
        stop(TRUE, FALSE, TRUE)
      ELSE MtiParseLoop(buf, "WAIT_PAYLOAD", n, t, out)
    ELSE stop(FALSE, FALSE, FALSE)                   \* header incomplete
  ELSE \* WAIT_PAYLOAD
    IF msg_len = Unbound THEN stop(FALSE, TRUE, FALSE)   \* UnboundLocalError
    ELSE IF Len(buf) >= MTI_HEADER_SIZE + msg_len.low THEN
      \* on_message(self, identity, msg, type_identifier=msg_id)
      MtiParseLoop(Drop(buf, MTI_HEADER_SIZE + msg_len.low), "WAIT_HEADER",
                   msg_len, msg_id,
                   Append(out,
                          [payload |-> SubSeq(buf, MTI_HEADER_SIZE + 1,
                                              MTI_HEADER_SIZE + msg_len.low),
                           option |-> "type_identifier", id |-> msg_id.low]))
    ELSE stop(FALSE, FALSE, FALSE)                   \* payload incomplete

\* MtiStreamProtocol.data_received(data)
mti_data_received(data) ==
  LET r == MtiParseLoop(mt_buffer \o data, mt_state, Unbound, Unbound, <<>>) IN
  /\ mt_buffer' = r.buffer
  /\ mt_state' = r.state
  /\ mt_msgs' = mt_msgs \o r.out
  /\ mt_closed' = (mt_closed \/ r.closed)
  /\ mt_raised' = (mt_raised \/ r.raised)
  /\ mt_hung' = r.hung

\* the peer writes one more item
MtWrite(item) ==
  /\ Len(mt_sent) < MaxFrames
  /\ mt_sent' = Append(mt_sent, item)
  /\ mt_wire' = mt_wire \o MtiBytes(item)
  /\ UNCHANGED <<mt_buffer, mt_state, mt_msgs, mt_bytewise, mt_closed,
                 mt_raised, mt_hung>>
  /\ UNCHANGED otherThanMt

\* the transport hands the next n bytes to data_received; the event loop
\* makes no further call while one is still running
MtDeliver(n) ==
  /\ ~mt_hung
  /\ n \in 1..Len(mt_wire)
  /\ mti_data_received(SubSeq(mt_wire, 1, n))
  /\ mt_wire' = Drop(mt_wire, n)
  /\ mt_bytewise' = (mt_bytewise /\ n = 1)
  /\ UNCHANGED mt_sent
  /\ UNCHANGED otherThanMt

MtInit ==
  /\ mt_buffer = <<>>
  /\ mt_state = "WAIT_HEADER"
  /\ mt_wire = <<>>
  /\ mt_sent = <<>>
  /\ mt_msgs = <<>>
  /\ mt_bytewise = TRUE
  /\ mt_closed = FALSE
  /\ mt_raised = FALSE
  /\ mt_hung = FALSE

\* ========================================================================
\* AMQP responder and the broker between requester and responder
\* ========================================================================
\* how a call of Responder._on_request_message can end: the four ways that
\* reject the request, or a reply published to reply_to followed by the ack
Rejections == {"decode_error", "handler_raises", "encode_error",
               "publish_error"}

Outcomes == Rejections \cup {"reply"}

\* the binding of the response queue to the dead letter exchange
\* (arguments From = response_queue.name) exists from start() until stop()
\* unbinds it
dlx_bound == response_queue /\ rq_stop_pc \in {"idle", "unbind"}

\* a responder that publishes a response for a request it rejects as well
routed_always(cid, outcome) ==
  IF response_queue THEN {[cid |-> cid, kind |-> "reply"]} ELSE {}

\* What the broker routes to the response queue when _on_request_message
\* ends.  message.reject(requeue=False) makes the broker hand the request,
\* with an x-death header, to the dead letter exchange of the service
\* queue; that headers exchange matches the request's From header against
\* the bindings.  A reply goes through the default exchange to the queue
\* named by reply_to, mandatory=False.
routed(cid, outcome) ==
  IF outcome \in Rejections
    THEN IF dlx_bound THEN {[cid |-> cid, kind |-> "x-death"]} ELSE {}
    ELSE IF response_queue THEN {[cid |-> cid, kind |-> "reply"]} ELSE {}

\* the broker delivers a published request from the service queue and
\* Responder._on_request_message begins; requests of a Requester always
\* carry reply_to
RpReceive(cid) ==
  /\ cid \in published
  /\ rp[cid] = "none"
  /\ rp' = [rp EXCEPT ![cid] = "handling"]
  /\ UNCHANGED inbox
  /\ UNCHANGED rqVars
  /\ UNCHANGED otherThanRqRp

\* a handler that acks the request together with the publish
handled_acked(outcome) == outcome

\* where _on_request_message stands after decode, handler, encode and
\* publish: a rejected request is finished with ("await message.reject(
\* requeue=False)", the broker does not put it back on the service queue);
\* after a successful publish the handler goes on to "await message.ack()"
handled(outcome) == IF outcome = "reply" THEN "published" ELSE outcome

\* Responder._on_request_message from the decode to the publish of the
\* response or to the reject
RpHandle(cid, outcome) ==
  /\ rp[cid] = "handling"
  /\ rp' = [rp EXCEPT ![cid] = handled(outcome)]
  /\ inbox' = inbox \cup routed(cid, outcome)
  /\ UNCHANGED rqVars
  /\ UNCHANGED otherThanRqRp

\* Responder._on_request_message, last statement: await message.ack()
RpAck(cid) ==
  /\ rp[cid] = "published"
  /\ rp' = [rp EXCEPT ![cid] = "reply"]
  /\ UNCHANGED inbox
  /\ UNCHANGED rqVars
  /\ UNCHANGED otherThanRqRp

\* the broker delivers a message of the response queue to the consumer
\* Requester.on_response_message, which suspends in "await message.ack()"
RpDeliver(m) ==
  /\ m \in inbox
  /\ response_queue
  /\ rq_stop_pc \in {"idle", "unbind"}
  /\ Cardinality(acking) < prefetch_count
  /\ acking' = acking \cup {m}
  /\ inbox' = inbox \ {m}
  /\ UNCHANGED rp
  /\ UNCHANGED <<futures, slot, done_callbacks, req_pc, observed, published,
                 response_queue, channel, rq_stop_pc, rq_events, rq_raised>>
  /\ UNCHANGED otherThanRqRp

RpInit ==
  /\ rp = [c \in Cids |-> "none"]
  /\ inbox = {}

\* ========================================================================
\* AMQP consumer: Consumer.on_message under "async with message.process()"
\* ========================================================================
Msgs == 1 .. MaxMessages

\* how one run of on_message can go: no handler installed, the payload
\* does not decode, the user handler raises, or both succeed
Handlings == {"no_handler", "decode_error", "handler_raises", "ok"}

\* on_message catches the decode failure and the handler failure itself
\* (except Exception: ... return), so no exception leaves the body of the
\* "async with" block
escapes(handling) == FALSE

\* message.process(): the context manager acks when its body ends without
\* an exception and rejects when an exception leaves the body
process(escaped) == IF escaped THEN "rejected" ELSE "acked"

\* a producer publishes a message that is routed to the consumer's queue
CmPublish(m) ==
  /\ cm[m].at = "none"
  /\ cm' = [cm EXCEPT ![m].at = "queued"]
  /\ UNCHANGED otherThanCm

\* Consumer.on_message, from the delivery to the exit of message.process()
CmOnMessage(m, handling) ==
  /\ cm[m].at = "queued"
  /\ cm' = [cm EXCEPT ![m] = [at |-> process(escapes(handling)),
                               handling |-> handling]]
  /\ UNCHANGED otherThanCm

CmInit == cm = [m \in Msgs |-> [at |-> "none", handling |-> "none"]]

\* ========================================================================
\* User callbacks of a stream endpoint (StreamEndpoint, stream/endpoint.py)
\* ========================================================================
Callbacks == {"on_started", "on_stopped", "on_peer_available",
              "on_peer_unavailable", "on_message"}

Kinds == {"plain", "coroutine"}

\* What one invocation of a user callback by the endpoint leads to.  Every
\* call site is "try: handler(...) except Exception: logger.exception(...)".
\* Calling a coroutine function only builds the coroutine object: nothing
\* of its body runs, and only on_message hands the object to the loop
\* (inspect.isawaitable -> self.loop.create_task); the other call sites
\* drop it.
invoke(c, kind, raises) ==
  IF kind = "plain"
  THEN IF raises THEN "caught" ELSE "returned"
  ELSE IF c = "on_message"
       THEN IF raises THEN "task_raising" ELSE "task_ok"
       ELSE "never_awaited"

\* the endpoint calls the user callback c
CbCall(c, raises) ==
  /\ cb[c] \notin {"task_raising", "task_ok"}
  /\ cb' = [cb EXCEPT ![c] = invoke(c, cb_kind[c], raises)]
  /\ UNCHANGED cb_kind
  /\ UNCHANGED otherThanCb

\* The loop runs the task made from the on_message coroutine.  Nobody
\* awaits the task or adds a done callback to it, so an exception raised
\* in it is handed to the loop's exception handler ("Task exception was
\* never retrieved").
CbTaskRuns(c) ==
  /\ cb[c] \in {"task_raising", "task_ok"}
  /\ cb' = [cb EXCEPT ![c] =
              IF cb[c] = "task_raising" THEN "loop_handler" ELSE "returned"]
  /\ UNCHANGED cb_kind
  /\ UNCHANGED otherThanCb

CbInit ==
  /\ cb_kind \in [Callbacks -> Kinds]
  /\ cb = [c \in Callbacks |-> "not_called"]

\* an endpoint whose callbacks are plain functions and are not looked at
CbUnused ==
  /\ cb_kind = [c \in Callbacks |-> "plain"]
  /\ cb = [c \in Callbacks |-> "not_called"]

\* ========================================================================
\* Datagram endpoint: DatagramEndpoint.start / stop (datagram/endpoint.py)
\* ========================================================================
Starts == 1 .. MaxStarts

\* the address arguments of a start() call
StartArgs == {"neither", "both", "local_addr", "remote_addr"}

\* an endpoint that sets its running flag whatever create_datagram_endpoint
\* does
start_running_always(created) == TRUE

\* "self._running = True" follows the await of create_datagram_endpoint
\* inside the try block: it is reached only when the socket was made
start_running(created) == created

\* DatagramEndpoint.start up to "await self.loop.create_datagram_endpoint"
DgStart(i, args) ==
  /\ dg_start[i] = "idle"
  /\ dg_start' = [dg_start EXCEPT ![i] =
                    IF dg_running THEN "returned"
                    ELSE IF args \in {"neither", "both"} THEN "raised"
                    ELSE "creating"]
  /\ UNCHANGED <<dg_running, dg_protocol, dg_stop_pc, dg_stop_noop,
                 dg_on_started, dg_on_stopped>>
  /\ UNCHANGED otherThanDg

\* create_datagram_endpoint returns (the protocol's connection_made has
\* called on_peer_available, which keeps the protocol) or raises OSError,
\* which start() logs
DgCreate(i, created) ==
  /\ dg_start[i] = "creating"
  /\ dg_start' = [dg_start EXCEPT ![i] =
                    IF created THEN "started" ELSE "failed"]
  /\ dg_running' = (dg_running \/ start_running(created))
  /\ dg_protocol' = (dg_protocol \/ created)
  /\ dg_on_started' = (dg_on_started \/ created)
  /\ UNCHANGED <<dg_stop_pc, dg_stop_noop, dg_on_stopped>>
  /\ UNCHANGED otherThanDg

\* DatagramEndpoint.stop up to "await asyncio.sleep(0)"
DgStop ==
  /\ dg_stop_pc = "idle"
  /\ IF ~dg_running
     THEN /\ dg_stop_noop' = TRUE
          /\ UNCHANGED dg_stop_pc
     ELSE /\ dg_stop_pc' = "closing"
          /\ UNCHANGED dg_stop_noop
  /\ UNCHANGED <<dg_running, dg_protocol, dg_start, dg_on_started,
                 dg_on_stopped>>
  /\ UNCHANGED otherThanDg

\* stop() resumes: the closed transport has reported connection_lost
\* (on_peer_unavailable drops the protocol), the flag is cleared and
\* on_stopped is invoked
DgStopped ==
  /\ dg_stop_pc = "closing"
  /\ dg_stop_pc' = "idle"
  /\ dg_running' = FALSE
  /\ dg_protocol' = FALSE
  /\ dg_on_stopped' = TRUE
  /\ UNCHANGED <<dg_start, dg_stop_noop, dg_on_started>>
  /\ UNCHANGED otherThanDg

DgInit ==
  /\ dg_running = FALSE
  /\ dg_protocol = FALSE
  /\ dg_start = [i \in Starts |-> "idle"]
  /\ dg_stop_pc = "idle"
  /\ dg_stop_noop = FALSE
  /\ dg_on_started = FALSE
  /\ dg_on_stopped = FALSE

\* ========================================================================
\* Datagram protocols: datagram_received of NetstringDatagramProtocol and
\* MtiDatagramProtocol
\* ========================================================================
DatagramProtocols == {"netstring", "mti"}

header_size(proto) ==
  IF proto = "netstring" THEN NETSTRING_HEADER_SIZE ELSE MTI_HEADER_SIZE

\* the bytes of one frame as send() builds it
frame(proto, payload) ==
  IF proto = "netstring"
  THEN pack(Len(payload)) \o payload
  ELSE mti_pack(Len(payload), CHOOSE t \in MtiTypes : TRUE) \o payload

\* the datagrams a socket can hand over: a frame, or a frame cut short at
\* any byte
Datagrams(proto) ==
  UNION {{SubSeq(frame(proto, p), 1, k) : k \in 0 .. Len(frame(proto, p))}
           : p \in Payloads}

\* the Python slice data[a:b]
slice(data, a, b) ==
  SubSeq(data, a + 1, IF b < Len(data) THEN b ELSE Len(data))

\* datagram_received(data, addr).  struct.unpack on data[:header] raises
\* struct.error when the datagram is shorter than the header; nothing
\* compares len(data) with the end of the message, the payload is the
\* slice data[header:eom] whatever its length.
datagram_received(proto, data) ==
  LET hs == header_size(proto) IN
    IF Len(data) < hs
    THEN [proto |-> proto, kind |-> "raised", declared |-> 0,
          payload |-> <<>>, complete |-> FALSE]
    ELSE LET n == unpack(SubSeq(data, 1, NETSTRING_HEADER_SIZE)).low IN
           [proto |-> proto, kind |-> "on_message", declared |-> n,
            payload |-> IF proto = "mti" /\ n = 0
                        THEN <<>> ELSE slice(data, hs, hs + n),
            complete |-> Len(data) >= hs + n]

\* the transport hands one datagram to the protocol
DnReceive(proto, data) ==
  /\ Len(dn_log) < MaxDatagrams
  /\ dn_log' = Append(dn_log, datagram_received(proto, data))
  /\ UNCHANGED otherThanDn

DnInit == dn_log = <<>>

\* ========================================================================
\* Delimiter parser: LineDelimitedStreamProtocol
\* (examples/stream/linereceiver/delimited.py)
\* ========================================================================
\* the default delimiter b"\n" and the two-byte delimiter b"\r\n"
Delimiters == {<<10>>, <<13, 10>>}

\* bytes of a payload: an ordinary byte and the first byte of b"\r\n"
LineBytes == {1, 13}

\* payloads of 1..MaxPayload bytes, none of them holding a delimiter
Lines == UNION {[1..n -> LineBytes] : n \in 1..MaxPayload}

\* bytearray.split(delimiter): the segments between the occurrences of the
\* delimiter, found left to right; cur is the segment being collected
RECURSIVE split(_, _, _)
split(buf, delimiter, cur) ==
  IF Len(buf) < Len(delimiter)
  THEN <<cur \o buf>>
  ELSE IF SubSeq(buf, 1, Len(delimiter)) = delimiter
       THEN <<cur>> \o split(SubSeq(buf, Len(delimiter) + 1, Len(buf)),
                             delimiter, <<>>)
       ELSE split(Tail(buf), delimiter, Append(cur, Head(buf)))

\* a parser that forgets the bytes after the last delimiter
remainder_cleared(msgs) == <<>>

\* what data_received leaves in self._buffer: the last element of the
\* split, which is empty (buffer.clear()) when the buffer ended with a
\* delimiter
remainder(msgs) == msgs[Len(msgs)]

\* LineDelimitedStreamProtocol.data_received: every element of the split
\* but the last is passed to on_message, the empty ones as well
dl_data_received(data) ==
  LET msgs == split(dl_buffer \o data, dl_delimiter, <<>>) IN
    /\ dl_buffer' = remainder(msgs)
    /\ dl_msgs' = dl_msgs \o SubSeq(msgs, 1, Len(msgs) - 1)

\* LineDelimitedStreamProtocol.send(data) for a bytes object: what it
\* writes to the transport
delimited_send(data) == IF data = <<>> THEN <<>> ELSE data \o dl_delimiter

\* the bytes a sequence of payloads, each followed by the delimiter, puts
\* on the stream
RECURSIVE DlWire(_)
DlWire(items) ==
  IF items = <<>> THEN <<>>
  ELSE Head(items) \o dl_delimiter \o DlWire(Tail(items))

\* the peer is a LineDelimitedStreamProtocol and calls send(data)
DlSend(data) ==
  /\ Len(dl_sent) < MaxLines
  /\ dl_sent' = Append(dl_sent, data)
  /\ dl_wire' = dl_wire \o delimited_send(data)
  /\ UNCHANGED <<dl_delimiter, dl_buffer, dl_msgs, dl_cut>>
  /\ UNCHANGED otherThanDl

\* a peer writes the delimiter alone (an empty line)
DlWriteDelimiter ==
  /\ Len(dl_sent) < MaxLines
  /\ dl_sent' = Append(dl_sent, <<>>)
  /\ dl_wire' = dl_wire \o dl_delimiter
  /\ UNCHANGED <<dl_delimiter, dl_buffer, dl_msgs, dl_cut>>
  /\ UNCHANGED otherThanDl

\* number of stream bytes up to the end of the i-th payload's delimiter
DlEnd(i) == Len(DlWire(SubSeq(dl_sent, 1, i)))

\* the transport hands the next n bytes to data_received
DlDeliver(n) ==
  /\ n \in 1..Len(dl_wire)
  /\ dl_data_received(SubSeq(dl_wire, 1, n))
  /\ dl_wire' = Drop(dl_wire, n)
  /\ dl_cut' = (dl_cut \/
                  LET got == Len(DlWire(dl_sent)) - Len(dl_wire) + n IN
                    \E i \in 1..Len(dl_sent) :
                       DlEnd(i) - Len(dl_delimiter) < got /\ got < DlEnd(i))
  /\ UNCHANGED <<dl_delimiter, dl_sent>>
  /\ UNCHANGED otherThanDl

DlInit ==
  /\ dl_delimiter = <<10>>
  /\ dl_buffer = <<>>
  /\ dl_wire = <<>>
  /\ dl_sent = <<>>
  /\ dl_msgs = <<>>
  /\ dl_cut = FALSE

\* ========================================================================
\* Type registry: SchemaRegistry.register_message and
\* ObjectRegistry.register_message (serialization.py), which are alike
\* ========================================================================
\* identifiers a caller supplies; the automatic ones start at 1 as well
TypeIds == 1 .. MaxRegistrations

\* the schemas or message classes that get registered
Objects == {"Position", "Velocity"}

NoObject == "none"

\* type_identifier=None
NoId == 0

NoCall == [calls |-> 0, obj |-> NoObject, given |-> NoId, id |-> NoId]

\* register_message(obj, type_identifier): without an identifier the
\* counter is incremented and used; the object is then stored under the
\* identifier with a plain item assignment, whatever the table holds
RgRegister(obj, type_identifier) ==
  /\ rg_last.calls < MaxRegistrations
  /\ LET id == IF type_identifier = NoId THEN rg_id + 1 ELSE type_identifier
     IN
       /\ rg_id' = IF type_identifier = NoId THEN rg_id + 1 ELSE rg_id
       /\ rg_map' = [rg_map EXCEPT ![id] = obj]
       /\ rg_last' = [calls |-> rg_last.calls + 1, obj |-> obj,
                      given |-> type_identifier, id |-> id]
  /\ UNCHANGED otherThanRg

RgInit ==
  /\ rg_id = 0
  /\ rg_map = [i \in TypeIds |-> NoObject]
  /\ rg_last = NoCall

\* ========================================================================
\* Compression registry: CompressorRegistry.register (compression.py)
\* ========================================================================
CompressorNames == {"gzip", "zlib", "bz2"}

ContentTypes == {"applications/x-gzip", "application/zlib", "applications/x-bz2"}

\* a key that is not in the dict
Missing == "missing"

\* CompressorRegistry.register(name, encoder, decoder, content_type): two
\* item assignments, the entries the name or the type had before with
\* another partner are left as they are
CrRegister(name, content_type) ==
  /\ type_to_name' = [type_to_name EXCEPT ![content_type] = name]
  /\ name_to_type' = [name_to_type EXCEPT ![name] = content_type]
  /\ UNCHANGED otherThanCr

CrInit ==
  /\ type_to_name = [t \in ContentTypes |-> Missing]
  /\ name_to_type = [n \in CompressorNames |-> Missing]

\* ========================================================================
\* Serializer registry: SerializerRegistry.register / get_codec /
\* get_serializer (serialization.py)
\* ========================================================================
SerializerNames == {"text", "json", "msgpack"}

SerializerTypes == {"text/plain", "application/json", "application/msgpack"}

NoLookup == [key |-> Missing, found |-> Missing]

\* get_codec(name) and get_serializer(name): self._serializers[name], a
\* dict keyed by the convenience names only; a KeyError becomes an
\* Exception.  The outcome is the content type of the codec found.
get_codec(key) ==
  IF key \in SerializerNames /\ serializers[key] # Missing
  THEN serializers[key]
  ELSE "raised"

\* SerializerRegistry.register(name, serializer, content_type)
SrRegister(name, content_type) ==
  /\ serializers' = [serializers EXCEPT ![name] = content_type]
  /\ sr_last' = NoLookup
  /\ UNCHANGED otherThanSr

\* a get_codec or get_serializer call with a name or a content type
SrLookup(key) ==
  /\ sr_last' = [key |-> key, found |-> get_codec(key)]
  /\ UNCHANGED serializers
  /\ UNCHANGED otherThanSr

SrInit ==
  /\ serializers = [n \in SerializerNames |-> Missing]
  /\ sr_last = NoLookup

\* ========================================================================
\* AMQP producer: Producer.publish_message (amq/producer.py) and
\* utils.encode_payload (amq/utils.py)
\* ========================================================================
\* header keys a caller passes in headers=
CallerKeys == {"trace-id", "origin"}

\* serializations with and without a type identifier in the headers
PublishTypes == {"application/json", "application/x-avro"}

\* encode_payload(..., headers=headers): the keys it adds to the dict it
\* is given
encode_payload(headers, content_type, compression) ==
  headers
    \cup (IF content_type = "application/x-avro" THEN {"x-type-id"} ELSE {})
    \cup (IF compression THEN {"compression"} ELSE {})

\* Producer.publish_message for data that encodes: the headers argument
\* is rebound to a new empty dict before encode_payload is called, and
\* that dict goes into the Message
publish_message(headers, content_type, compression) ==
  [given |-> headers, content_type |-> content_type,
   compression |-> compression,
   headers |-> encode_payload({}, content_type, compression)]

PdStart ==
  /\ ~pd_connection
  /\ pd_connection' = TRUE
  /\ UNCHANGED pd_log
  /\ UNCHANGED otherThanPd

PdStop ==
  /\ pd_connection
  /\ pd_connection' = FALSE
  /\ UNCHANGED pd_log
  /\ UNCHANGED otherThanPd

\* a publish_message call; without a connection it logs and returns
PdPublish(headers, content_type, compression) ==
  /\ Len(pd_log) < MaxMessages
  /\ pd_log' = IF pd_connection
               THEN Append(pd_log,
                           publish_message(headers, content_type, compression))
               ELSE pd_log
  /\ UNCHANGED pd_connection
  /\ UNCHANGED otherThanPd

PdInit ==
  /\ pd_connection = FALSE
  /\ pd_log = <<>>

\* ========================================================================
\* Application runner: run(func, finalize=..., loop=...) (runner.py)
\* ========================================================================
Tasks == 1 .. MaxTasks

\* the positions of run() at which the loop is running: run_forever, and
\* the run_until_complete calls of the finally block
LoopRuns == {"run_forever", "finalize", "gather"}

\* a task spawned by the application starts
RnSpawn(t) ==
  /\ rn_pc \in LoopRuns
  /\ rn_tasks[t] = "none"
  /\ rn_tasks' = [rn_tasks EXCEPT ![t] = "pending"]
  /\ UNCHANGED <<rn_finalize, rn_pc, rn_stop, rn_finalized>>
  /\ UNCHANGED otherThanRn

\* SIGINT or SIGTERM arrives (signal_handler), or the application calls
\* loop.stop(): a stop of the loop is scheduled
RnSignal ==
  /\ rn_pc \in LoopRuns
  /\ rn_stop' = TRUE
  /\ UNCHANGED <<rn_finalize, rn_pc, rn_tasks, rn_finalized>>
  /\ UNCHANGED otherThanRn

\* a task ends with an exception nobody retrieves: the loop's exception
\* handler (exception_handler) schedules a stop of the loop
RnTaskRaises(t) ==
  /\ rn_pc \in LoopRuns
  /\ rn_tasks[t] = "pending"
  /\ rn_tasks' = [rn_tasks EXCEPT ![t] = "done"]
  /\ rn_stop' = TRUE
  /\ UNCHANGED <<rn_finalize, rn_pc, rn_finalized>>
  /\ UNCHANGED otherThanRn

\* The scheduled loop.stop runs.  run_forever returns and the finally
\* block starts; a run_until_complete of the finally block whose future is
\* not done yet raises RuntimeError("Event loop stopped before Future
\* completed.") instead, which leaves run() through the finally block.
\* Without pending tasks nothing is gathered and the stop has no effect.
RnLoopStops ==
  /\ rn_stop
  /\ rn_pc \in LoopRuns
  /\ rn_stop' = FALSE
  /\ rn_pc' = CASE rn_pc = "run_forever" ->
                     IF rn_finalize THEN "finalize" ELSE "gather"
                [] rn_pc = "finalize" -> "raised"
                [] rn_pc = "gather" ->
                     IF \E t \in Tasks : rn_tasks[t] = "pending"
                     THEN "raised" ELSE "gather"
  /\ UNCHANGED <<rn_finalize, rn_tasks, rn_finalized>>
  /\ UNCHANGED otherThanRn

\* loop.run_until_complete(finalize) returns
RnFinalized ==
  /\ rn_pc = "finalize"
  /\ rn_pc' = "gather"
  /\ rn_finalized' = TRUE
  /\ UNCHANGED <<rn_finalize, rn_stop, rn_tasks>>
  /\ UNCHANGED otherThanRn

\* every pending task is cancelled and run_until_complete(gather(...))
\* returns or raises CancelledError, which is absorbed
RnCancelled ==
  /\ rn_pc = "gather"
  /\ rn_tasks' = [t \in Tasks |->
                    IF rn_tasks[t] = "pending" THEN "done" ELSE rn_tasks[t]]
  /\ rn_pc' = "close"
  /\ UNCHANGED <<rn_finalize, rn_stop, rn_finalized>>
  /\ UNCHANGED otherThanRn

\* loop.close(), and run() returns
RnClosed ==
  /\ rn_pc = "close"
  /\ rn_pc' = "returned"
  /\ UNCHANGED <<rn_finalize, rn_stop, rn_tasks, rn_finalized>>
  /\ UNCHANGED otherThanRn

RnInit ==
  /\ rn_finalize = TRUE
  /\ rn_pc = "run_forever"
  /\ rn_stop = FALSE
  /\ rn_tasks = [t \in Tasks |-> "none"]
  /\ rn_finalized = FALSE

\* ========================================================================
\* Timer (timer.py), with forever=False
\* ========================================================================
\* a timer that schedules a next expiry whatever is left of its repeats
reschedules_forever(repeats) == TRUE

\* _on_timer_expiry, "if self.forever or self.repeats:" with forever=False
reschedules(repeats) == repeats # 0

\* Timer._cancel
cancel ==
  /\ tm_cancelled' = TRUE
  /\ tm_handle' = FALSE
  /\ tm_task' = FALSE
  /\ tm_running' = FALSE
  \* a task cancelled while it runs finishes, and its done callbacks are
  \* scheduled
  /\ tm_done_cb' = FALSE
  /\ tm_cb_pending' = (tm_cb_pending \/ (tm_task /\ tm_done_cb))

\* Timer.start on a timer that is not started
TmStart ==
  /\ ~tm_started
  /\ tm_started' = TRUE
  /\ tm_running' = FALSE
  /\ tm_cancelled' = FALSE
  /\ tm_handle' = TRUE
  /\ tm_n' = tm_repeats
  /\ tm_calls' = 0
  /\ UNCHANGED <<tm_repeats, tm_task, tm_done_cb, tm_cb_pending, tm_clean>>
  /\ UNCHANGED otherThanTm

\* Timer.stop on a started timer
TmStop ==
  /\ tm_started
  /\ cancel
  /\ tm_started' = FALSE
  /\ tm_clean' = FALSE
  /\ UNCHANGED <<tm_repeats, tm_n, tm_calls>>
  /\ UNCHANGED otherThanTm

\* Timer._on_timer_expiry; the task it creates starts _runner, which sets
\* _running and calls the user callback
TmExpiry ==
  /\ tm_handle
  /\ IF tm_cancelled
     THEN /\ tm_handle' = FALSE
          /\ UNCHANGED <<tm_repeats, tm_running, tm_task, tm_done_cb,
                         tm_calls, tm_clean>>
     ELSE LET left == IF tm_repeats > 0 THEN tm_repeats - 1 ELSE tm_repeats
          IN
          /\ tm_repeats' = left
          /\ IF tm_running
             THEN UNCHANGED <<tm_running, tm_task, tm_calls>> /\ tm_clean' = FALSE
             ELSE /\ tm_running' = TRUE
                  /\ tm_task' = TRUE
                  /\ tm_calls' = tm_calls + 1
                  /\ UNCHANGED tm_clean
          /\ tm_handle' = reschedules(left)
          /\ tm_done_cb' = (tm_done_cb \/ ~reschedules(left))
  /\ UNCHANGED <<tm_started, tm_cancelled, tm_cb_pending, tm_n>>
  /\ UNCHANGED otherThanTm

\* Timer._runner: the user callback returns, or raises TypeError, which
\* is only logged
TmCallbackReturns ==
  /\ tm_task /\ tm_running
  /\ tm_running' = FALSE
  /\ tm_task' = FALSE
  /\ tm_done_cb' = FALSE
  /\ tm_cb_pending' = (tm_cb_pending \/ tm_done_cb)
  /\ UNCHANGED <<tm_repeats, tm_started, tm_cancelled, tm_handle, tm_n,
                 tm_calls, tm_clean>>
  /\ UNCHANGED otherThanTm

\* Timer._runner: the user callback raises another exception, and the
\* timer is cancelled
TmCallbackRaises ==
  /\ tm_task /\ tm_running
  /\ cancel
  /\ tm_clean' = FALSE
  /\ UNCHANGED <<tm_repeats, tm_started, tm_n, tm_calls>>
  /\ UNCHANGED otherThanTm

\* the done callback of the task of the last expiry: Timer._cancel
TmDoneCallback ==
  /\ tm_cb_pending
  /\ tm_cancelled' = TRUE
  /\ tm_handle' = FALSE
  /\ tm_task' = FALSE
  /\ tm_running' = FALSE
  /\ tm_done_cb' = FALSE
  /\ tm_cb_pending' = (tm_task /\ tm_done_cb)
  /\ UNCHANGED <<tm_repeats, tm_started, tm_n, tm_calls, tm_clean>>
  /\ UNCHANGED otherThanTm

TmInit ==
  /\ tm_repeats = 1
  /\ tm_started = FALSE
  /\ tm_running = FALSE
  /\ tm_cancelled = FALSE
  /\ tm_handle = FALSE
  /\ tm_task = FALSE
  /\ tm_done_cb = FALSE
  /\ tm_cb_pending = FALSE
  /\ tm_n = 1
  /\ tm_calls = 0
  /\ tm_clean = TRUE

\* ========================================================================
\* Responder._on_request_message, one delivery at a time
\* ========================================================================
Deliveries == 1 .. MaxDeliveries

\* the ways a call of _on_request_message ends
Paths == {"no_reply_to", "decode_error", "handler_raises", "encode_error",
          "publish_error", "success"}

\* await message.ack()
message_ack(d) ==
  /\ rs_acks' = [rs_acks EXCEPT ![d] = @ + 1]
  /\ UNCHANGED rs_rejects

\* a failure branch that goes on to the final ack instead of returning
message_reject_then_ack(d) ==
  /\ rs_rejects' = [rs_rejects EXCEPT ![d] = @ + 1]
  /\ rs_acks' = [rs_acks EXCEPT ![d] = @ + 1]

\* await message.reject(requeue=False); return
message_reject(d) ==
  /\ rs_rejects' = [rs_rejects EXCEPT ![d] = @ + 1]
  /\ UNCHANGED rs_acks

\* _on_request_message returns
ends(d, path) ==
  /\ rs_pc' = [rs_pc EXCEPT ![d] = "done"]
  /\ rs_path' = [rs_path EXCEPT ![d] = path]

\* the broker delivers a request; _on_request_message checks reply_to,
\* decodes the payload and calls the request handler
RsOnRequest(d, reply_to, decodes) ==
  /\ rs_pc[d] = "none"
  /\ IF ~reply_to
       THEN message_ack(d) /\ ends(d, "no_reply_to")
       ELSE IF ~decodes
         THEN message_reject(d) /\ ends(d, "decode_error")
         ELSE /\ rs_pc' = [rs_pc EXCEPT ![d] = "in_handler"]
              /\ UNCHANGED <<rs_path, rs_acks, rs_rejects>>
  /\ UNCHANGED otherThanRs

\* the request handler returns or raises; the response is encoded and
\* handed to default_exchange.publish
RsHandler(d, raises, encodes) ==
  /\ rs_pc[d] = "in_handler"
  /\ IF raises
       THEN message_reject(d) /\ ends(d, "handler_raises")
       ELSE IF ~encodes
         THEN message_reject(d) /\ ends(d, "encode_error")
         ELSE /\ rs_pc' = [rs_pc EXCEPT ![d] = "publishing"]
              /\ UNCHANGED <<rs_path, rs_acks, rs_rejects>>
  /\ UNCHANGED otherThanRs

\* publish returns or raises
RsPublish(d, raises) ==
  /\ rs_pc[d] = "publishing"
  /\ IF raises
       THEN message_reject(d) /\ ends(d, "publish_error")
       ELSE message_ack(d) /\ ends(d, "success")
  /\ UNCHANGED otherThanRs

RsInit ==
  /\ rs_pc = [d \in Deliveries |-> "none"]
  /\ rs_path = [d \in Deliveries |-> "none"]
  /\ rs_acks = [d \in Deliveries |-> 0]
  /\ rs_rejects = [d \in Deliveries |-> 0]

\* ========================================================================
\* Specifications
\* ========================================================================
InitStream == SeInit /\ NsInit /\ RqInit /\ SdInit /\ MtInit /\ RpInit /\ CmInit /\ CbUnused /\ DgInit /\ DnInit /\ DlInit /\ RgInit /\ CrInit /\ SrInit /\ PdInit /\ RnInit /\ TmInit /\ RsInit

NextStream ==
  \/ \E r \in BOOLEAN : Start(r)
  \/ ListenOk
  \/ ListenFails
  \/ Stop
  \/ StopWaitClosed
  \/ StopDisconnect
  \/ \E t \in TaskIds : TaskBegin(t)
  \/ \E t \in TaskIds : TaskDisconnect(t)
  \/ \E t \in TaskIds : TimerFires(t)
  \/ \E t \in TaskIds : TaskWake(t)
  \/ \E t \in TaskIds : ConnectRefused(t)
  \/ \E t \in TaskIds : TransportMade(t)
  \/ Accept
  \/ \E c \in ConnIds : ConnectionMade(c)
  \/ \E t \in TaskIds : ConnectDone(t)
  \/ \E t \in TaskIds : TaskCancelled(t)
  \/ \E c \in ConnIds : ConnectionLost(c)

SpecStream == InitStream /\ [][NextStream]_vars

\* the steps the event loop takes by itself: callbacks it has scheduled,
\* tasks that are ready to resume and timers that elapse
LoopStep ==
  \/ StopWaitClosed
  \/ StopDisconnect
  \/ \E t \in TaskIds : TaskBegin(t)
  \/ \E t \in TaskIds : TaskDisconnect(t)
  \/ \E t \in TaskIds : TimerFires(t)
  \/ \E t \in TaskIds : TaskWake(t)
  \/ \E c \in ConnIds : ConnectionMade(c)
  \/ \E t \in TaskIds : ConnectDone(t)
  \/ \E t \in TaskIds : TaskCancelled(t)

\* the event loop does not stop while it has something to run
FairStream ==
  /\ InitStream
  /\ [][NextStream /\ stimuli' <= MaxFairStimuli]_vars
  /\ WF_vars(LoopStep)

\* a stream server, its peers and the send() calls made on it
InitSend ==
  is_server = TRUE /\ py37 = FALSE /\ SeIdle /\ NsInit /\ RqInit /\ SdInit /\ MtInit /\ RpInit /\ CmInit /\ CbUnused /\ DgInit /\ DnInit /\ DlInit /\ RgInit /\ CrInit /\ SrInit /\ PdInit /\ RnInit /\ TmInit /\ RsInit

NextSend ==
  \/ \E r \in BOOLEAN : Start(r)
  \/ ListenOk
  \/ ListenFails
  \/ Accept
  \/ \E c \in ConnIds : ConnectionMade(c)
  \/ \E c \in ConnIds : ConnectionLost(c)
  \/ Stop
  \/ StopWaitClosed
  \/ StopDisconnect
  \/ \E p \in ConnIds \cup {NoPeer}, e \in BOOLEAN : Send(p, e)

SpecSend == InitSend /\ [][NextSend]_vars

InitRpc == RqInit /\ NsInit /\ SeUnused /\ SdInit /\ MtInit /\ RpInit /\ CmInit /\ CbUnused /\ DgInit /\ DnInit /\ DlInit /\ RgInit /\ CrInit /\ SrInit /\ PdInit /\ RnInit /\ TmInit /\ RsInit

NextRpc ==
  \/ RqStart
  \/ \E cid \in Cids, encodes \in BOOLEAN : RqRequest(cid, encodes)
  \/ \E cid \in Cids : RqPublished(cid)
  \/ \E cid \in Cids : RqPublishFails(cid)
  \/ \E cid \in Cids : RqDoneCallbacks(cid)
  \/ \E m \in Responses : RqDeliver(m)
  \/ \E m \in Responses : RqAcked(m)
  \/ \E cid \in Cids : RqReturned(cid)
  \/ RqChannelClosed
  \/ RqStop
  \/ RqStopDiscard
  \/ RqStopDeleted
  \/ RqStopClose

SpecRpc == InitRpc /\ [][NextRpc]_vars

\* ------------------------------------------------------------------------
\* C3: a completion slot is completed at most once: after its first
\* terminal event a later event for the same correlation id leaves the
\* outcome unchanged and raises no error.
\* ------------------------------------------------------------------------
C3_SlotCompletedOnce ==
  [][/\ \A c \in Cids : slot[c] \in Terminal => slot'[c] = slot[c]
     /\ \A c \in Cids : observed[c] # "none" => observed'[c] = observed[c]
     /\ rq_raised' = {}]_vars

C20_ReturnedRequest ==
  [][/\ \A c \in Cids :
          (rp[c] = "none" /\ rp'[c] = "returned") =>
             /\ slot[c] = "pending" => slot'[c] = "undeliverable"
             /\ rq_raised' = rq_raised
             /\ \A d \in Cids \ {c} :
                  /\ slot'[d] = slot[d]
                  /\ (d \in futures') = (d \in futures)
                  /\ observed'[d] = observed[d]
     /\ \A c \in Cids :
          (slot[c] = "undeliverable" /\ req_pc[c] # "returned"
             /\ req_pc'[c] = "returned") => observed'[c] = "undeliverable"]_vars

\* a returned request whose request() call has raised DeliveryError while
\* another request is still pending
C20_Witness ==
  \E c, d \in Cids :
    /\ c # d
    /\ rp[c] = "returned"
    /\ observed[c] = "undeliverable"
    /\ slot[d] = "pending"
    /\ d \in futures

\* what the event loop runs by itself: continuations of suspended
\* coroutines and scheduled callbacks
RpcLoopStep ==
  \/ \E cid \in Cids : RqPublished(cid)
  \/ \E cid \in Cids : RqDoneCallbacks(cid)
  \/ \E m \in Responses : RqAcked(m)
  \/ RqStopDiscard
  \/ RqStopDeleted
  \/ RqStopClose

\* the event loop does not stop while it has something to run
FairRpc ==
  /\ InitRpc
  /\ [][NextRpc /\ rq_events' <= MaxFairEvents]_vars
  /\ WF_vars(RpcLoopStep)

\* ------------------------------------------------------------------------
\* C21: the step of stop() that discards the pending responses settles
\* every pending slot with Cancelled, a channel close settles every pending
\* slot with the close reason, and every request() call whose slot was
\* pending when stop() was called or when the channel closed eventually
\* ends.
\* ------------------------------------------------------------------------
C21_PendingFailOnStopOrClose ==
  /\ [][/\ (rq_stop_pc = "unbind" /\ rq_stop_pc' = "delete") =>
              \A c \in Cids : slot[c] = "pending" => slot'[c] = "cancelled"
        /\ (channel = "open" /\ channel' # "open") =>
              \A c \in Cids : slot[c] = "pending" => slot'[c] = "closed"]_vars
  /\ \A c \in Cids :
       (/\ req_pc[c] \in {"publishing", "waiting"}
        /\ \/ slot[c] = "pending" /\ rq_stop_pc = "unbind"
           \/ slot[c] = "closed")
         ~> req_pc[c] \in {"returned", "raised"}

\* two request() calls that were pending when stop() discarded the pending
\* responses have both ended with Cancelled
C21_Witness ==
  /\ Cardinality({c \in Cids : observed[c] = "cancelled"}) >= 2
  /\ rq_stop_pc # "unbind"

\* a requester that has been started, a responder consuming the service
\* queue, and the broker between them
InitDlx ==
  /\ futures = {}
  /\ slot = [c \in Cids |-> "unused"]
  /\ done_callbacks = {}
  /\ req_pc = [c \in Cids |-> "idle"]
  /\ observed = [c \in Cids |-> "none"]
  /\ published = {}
  /\ acking = {}
  /\ response_queue = TRUE
  /\ channel = "open"
  /\ rq_stop_pc = "idle"
  /\ rq_events = 0
  /\ rq_raised = {}
  /\ RpInit /\ CmInit /\ CbUnused /\ DgInit /\ DnInit /\ DlInit /\ RgInit /\ CrInit /\ SrInit /\ PdInit /\ RnInit /\ TmInit /\ RsInit /\ NsInit /\ SeUnused /\ SdInit /\ MtInit

\* what the event loop and the broker do by themselves
DlxStep ==
  \/ \E cid \in Cids : RqPublished(cid)
  \/ \E cid \in Cids : RqDoneCallbacks(cid)
  \/ \E cid \in Cids : RpReceive(cid)
  \/ \E cid \in Cids, outcome \in Outcomes : RpHandle(cid, outcome)
  \/ \E cid \in Cids : RpAck(cid)
  \/ \E m \in Responses : RpDeliver(m)
  \/ \E m \in Responses : RqAcked(m)

\* the requester is not stopped
NextDlx ==
  \/ DlxStep
  \/ \E cid \in 1..MaxCalls, encodes \in BOOLEAN : RqRequest(cid, encodes)
  \/ \E cid \in Cids : RqPublishFails(cid)
  \/ RqChannelClosed

SpecDlx == InitDlx /\ [][NextDlx]_vars

\* the loop and the broker do not stop while they have something to do
FairDlx == SpecDlx /\ WF_vars(DlxStep)

\* ------------------------------------------------------------------------
\* C19: when the handler of a responder raises for a request whose
\* request() call is pending on a requester that is not stopped, that call
\* eventually ends with Timeout, unless a channel close or a failed publish
\* ends it first; and a message with an x-death header settles a pending
\* slot with Timeout instead of being decoded as a reply.
\* ------------------------------------------------------------------------
C19_RejectedGivesTimeout ==
  /\ [][\A m \in Responses :
          (/\ m \in acking
           /\ m \notin acking'
           /\ m.kind = "x-death"
           /\ m.cid \in futures
           /\ slot[m.cid] = "pending") => slot'[m.cid] = "timeout"]_vars
  /\ \A c \in Cids :
       (rp[c] = "handler_raises" /\ slot[c] = "pending"
          /\ req_pc[c] \in {"publishing", "waiting"})
         ~> \/ observed[c] = "timeout"
            \/ slot[c] = "closed"
            \/ req_pc[c] = "raised"

\* a request rejected by the responder's handler whose request() call has
\* ended with Timeout
C19_Witness ==
  \E c \in Cids :
    /\ rp[c] = "handler_raises"
    /\ observed[c] = "timeout"
    /\ req_pc[c] = "returned"
    /\ rq_raised = {}

\* ------------------------------------------------------------------------
\* C22: the responder acks a request only after it has published the
\* response, and the response carries the request's correlation id to the
\* queue named by reply_to; a request is never acked straight from the
\* handler.
\* ------------------------------------------------------------------------
C22_AckAfterPublish ==
  [][\A c \in Cids :
       /\ (rp[c] # "reply" /\ rp'[c] = "reply") => rp[c] = "published"
       /\ (rp[c] = "handling" /\ rp'[c] = "published" /\ response_queue) =>
             [cid |-> c, kind |-> "reply"] \in inbox']_vars

\* a request that was acked after its response was published, and whose
\* request() call returned the response
C22_Witness ==
  \E c \in Cids :
    /\ rp[c] = "reply"
    /\ observed[c] = "result"

\* ------------------------------------------------------------------------
\* C23: a request whose decoding failed or whose handler raised is
\* rejected for good (it is not handed to the handler again) and no
\* response exists for it.
\* ------------------------------------------------------------------------
C23_RejectNoResponse ==
  [][\A c \in Cids :
       rp[c] \in {"decode_error", "handler_raises"} =>
          /\ rp'[c] = rp[c]
          /\ [cid |-> c, kind |-> "reply"] \notin inbox \cup acking
          /\ [cid |-> c, kind |-> "reply"] \notin inbox' \cup acking'
          /\ slot'[c] # "result"]_vars

\* both kinds of rejected request, none of them answered
C23_Witness ==
  \E c \in Cids :
    /\ rp[c] \in {"decode_error", "handler_raises"}
    /\ slot[c] = "timeout"

InitCm ==
  CmInit /\ CbUnused /\ DgInit /\ DnInit /\ DlInit /\ RgInit /\ CrInit /\ SrInit /\ PdInit /\ RnInit /\ TmInit /\ RsInit /\ NsInit /\ RqInit /\ SeUnused /\ SdInit /\ MtInit /\ RpInit

NextCm ==
  \/ \E m \in Msgs : CmPublish(m)
  \/ \E m \in Msgs, handling \in Handlings : CmOnMessage(m, handling)

SpecCm == InitCm /\ [][NextCm]_vars

\* ------------------------------------------------------------------------
\* C24: the consumer acks a message when decode and handler both succeed
\* and when the decode fails, and does not ack it when the handler raises.
\* ------------------------------------------------------------------------
C24_NoAckWhenHandlerRaises ==
  \A m \in Msgs :
    /\ cm[m].handling \in {"ok", "decode_error"} => cm[m].at = "acked"
    /\ cm[m].handling = "handler_raises" => cm[m].at # "acked"

InitCb ==
  CbInit /\ DgInit /\ DnInit /\ DlInit /\ RgInit /\ CrInit /\ SrInit /\ PdInit /\ RnInit /\ TmInit /\ RsInit /\ CmInit /\ NsInit /\ RqInit /\ SeUnused /\ SdInit /\ MtInit /\ RpInit

NextCb ==
  \/ \E c \in Callbacks, raises \in BOOLEAN : CbCall(c, raises)
  \/ \E c \in Callbacks : CbTaskRuns(c)

SpecCb == InitCb /\ [][NextCb]_vars

\* ------------------------------------------------------------------------
\* C25: an exception raised by a user callback of a stream endpoint, plain
\* function or coroutine, is caught by the endpoint and never reaches the
\* event loop.
\* ------------------------------------------------------------------------
C25_CallbackErrorsCaught ==
  \A c \in Callbacks : cb[c] # "loop_handler"

InitDg ==
  /\ DgInit /\ DnInit /\ DlInit /\ RgInit /\ CrInit /\ SrInit /\ PdInit /\ RnInit /\ TmInit /\ RsInit /\ CbUnused /\ CmInit
  /\ NsInit /\ RqInit /\ SeUnused /\ SdInit /\ MtInit /\ RpInit

NextDg ==
  \/ \E i \in Starts, args \in StartArgs : DgStart(i, args)
  \/ \E i \in Starts, created \in BOOLEAN : DgCreate(i, created)
  \/ DgStop
  \/ DgStopped

SpecDg == InitDg /\ [][NextDg]_vars

\* ------------------------------------------------------------------------
\* C26: as long as every start() of a datagram endpoint has failed (both
\* or neither address given, or the socket could not be made), the
\* endpoint is not running, on_started has not been invoked, and stop()
\* has not invoked on_stopped.
\* ------------------------------------------------------------------------
C26_FailedStartNotRunning ==
  (\A i \in Starts : dg_start[i] # "started") =>
     /\ ~dg_running
     /\ ~dg_on_started
     /\ ~dg_on_stopped
     /\ dg_stop_pc = "idle"

\* a start refused for its arguments, a start whose socket could not be
\* made, and a stop() after them
C26_Witness ==
  /\ \E i \in Starts : dg_start[i] = "raised"
  /\ \E i \in Starts : dg_start[i] = "failed"
  /\ \A i \in Starts : dg_start[i] # "started"
  /\ dg_stop_noop

InitDn ==
  /\ DnInit /\ DlInit /\ RgInit /\ CrInit /\ SrInit /\ PdInit /\ RnInit /\ TmInit /\ RsInit /\ DgInit /\ CbUnused /\ CmInit
  /\ NsInit /\ RqInit /\ SeUnused /\ SdInit /\ MtInit /\ RpInit

NextDn ==
  \/ \E data \in Datagrams("netstring") : DnReceive("netstring", data)
  \/ \E data \in Datagrams("mti") : DnReceive("mti", data)

SpecDn == InitDn /\ [][NextDn]_vars

\* ------------------------------------------------------------------------
\* C27: a datagram that does not hold one complete frame never produces
\* an on_message call; the payload handed to on_message is never shorter
\* than the length the header declares.
\* ------------------------------------------------------------------------
C27_NoTruncatedPayload ==
  \A i \in 1 .. Len(dn_log) :
    dn_log[i].kind = "on_message" =>
       /\ dn_log[i].complete
       /\ Len(dn_log[i].payload) = dn_log[i].declared

\* a delimiter parser made with either delimiter
InitDl ==
  /\ dl_delimiter \in Delimiters
  /\ dl_buffer = <<>>
  /\ dl_wire = <<>>
  /\ dl_sent = <<>>
  /\ dl_msgs = <<>>
  /\ dl_cut = FALSE
  /\ RgInit /\ CrInit /\ SrInit /\ PdInit /\ RnInit /\ TmInit /\ RsInit /\ DnInit /\ DgInit /\ CbUnused /\ CmInit
  /\ NsInit /\ RqInit /\ SeUnused /\ SdInit /\ MtInit /\ RpInit

NextDl ==
  \/ \E data \in Lines : DlSend(data)
  \/ DlWriteDelimiter
  \/ \E n \in 1..(MaxPayload + 2) * MaxLines : DlDeliver(n)

SpecDl == InitDl /\ [][NextDl]_vars

\* ------------------------------------------------------------------------
\* C28: the delimiter parser never passes an empty message to on_message.
\* ------------------------------------------------------------------------
C28_NoEmptyMessage ==
  \A i \in 1 .. Len(dl_msgs) : dl_msgs[i] # <<>>

\* ------------------------------------------------------------------------
\* C29: however the stream is cut into data_received calls, inside a
\* delimiter included, each non-empty payload is passed to on_message
\* exactly once, whole and in order, as soon as its delimiter has been
\* received, and the bytes after the last received delimiter are kept in
\* the buffer.
\* ------------------------------------------------------------------------
NonEmpty(msg) == msg # <<>>

C29_PartialKeptUntilDelimiter ==
  LET got == Len(DlWire(dl_sent)) - Len(dl_wire)
      complete == Cardinality({i \in 1..Len(dl_sent) : DlEnd(i) <= got})
  IN
    /\ SelectSeq(dl_msgs, NonEmpty) =
         SelectSeq(SubSeq(dl_sent, 1, complete), NonEmpty)
    /\ dl_buffer = SubSeq(DlWire(dl_sent), DlEnd(complete) + 1, got)

\* two payloads delivered through a two-byte delimiter that was cut in two
C29_Witness ==
  /\ dl_delimiter = <<13, 10>>
  /\ dl_cut
  /\ dl_wire = <<>>
  /\ Len(dl_msgs) = 2
  /\ \A i \in 1..2 : dl_msgs[i] # <<>>

InitRg ==
  /\ RgInit /\ CrInit /\ SrInit /\ PdInit /\ RnInit /\ TmInit /\ RsInit /\ DlInit /\ DnInit /\ DgInit /\ CbUnused /\ CmInit
  /\ NsInit /\ RqInit /\ SeUnused /\ SdInit /\ MtInit /\ RpInit

NextRg ==
  \/ \E obj \in Objects : RgRegister(obj, NoId)
  \/ \E obj \in Objects, id \in TypeIds : RgRegister(obj, id)

SpecRg == InitRg /\ [][NextRg]_vars

\* ------------------------------------------------------------------------
\* C30: a registration never touches an identifier that is already in
\* use: the identifier it assigns by itself is not yet mapped, and a
\* caller-supplied identifier that is mapped keeps its object.
\* ------------------------------------------------------------------------
C30_RegistrationKeepsIds ==
  [][rg_last'.calls = rg_last.calls + 1 =>
       /\ \A i \in TypeIds :
            rg_map[i] # NoObject => rg_map'[i] = rg_map[i]
       /\ rg_last'.given = NoId => rg_map[rg_last'.id] = NoObject]_vars

InitCr ==
  /\ CrInit /\ SrInit /\ PdInit /\ RnInit /\ TmInit /\ RsInit /\ RgInit /\ DlInit /\ DnInit /\ DgInit /\ CbUnused /\ CmInit
  /\ NsInit /\ RqInit /\ SeUnused /\ SdInit /\ MtInit /\ RpInit

NextCr ==
  \E name \in CompressorNames, content_type \in ContentTypes :
     CrRegister(name, content_type)

SpecCr == InitCr /\ [][NextCr]_vars

\* ------------------------------------------------------------------------
\* C31: name_to_type and type_to_name of the compression registry are
\* inverse to each other after any sequence of register calls.
\* ------------------------------------------------------------------------
C31_RegistryBijection ==
  /\ \A n \in CompressorNames :
       name_to_type[n] # Missing => type_to_name[name_to_type[n]] = n
  /\ \A t \in ContentTypes :
       type_to_name[t] # Missing => name_to_type[type_to_name[t]] = t

InitSr ==
  /\ SrInit /\ PdInit /\ RnInit /\ TmInit /\ RsInit /\ CrInit /\ RgInit /\ DlInit /\ DnInit /\ DgInit /\ CbUnused
  /\ CmInit /\ NsInit /\ RqInit /\ SeUnused /\ SdInit /\ MtInit /\ RpInit

NextSr ==
  \/ \E name \in SerializerNames, content_type \in SerializerTypes :
        SrRegister(name, content_type)
  \/ \E key \in SerializerNames \cup SerializerTypes : SrLookup(key)

SpecSr == InitSr /\ [][NextSr]_vars

\* ------------------------------------------------------------------------
\* C32: for a serializer registered with name n and content type t, a
\* lookup by n and a lookup by t both succeed and give the codec of t.
\* ------------------------------------------------------------------------
C32_LookupByNameOrType ==
  \A n \in SerializerNames :
    (serializers[n] # Missing /\ sr_last.key \in {n, serializers[n]}) =>
       sr_last.found = serializers[n]

InitPd ==
  /\ PdInit /\ RnInit /\ TmInit /\ RsInit /\ SrInit /\ CrInit /\ RgInit /\ DlInit /\ DnInit /\ DgInit
  /\ CbUnused /\ CmInit
  /\ NsInit /\ RqInit /\ SeUnused /\ SdInit /\ MtInit /\ RpInit

NextPd ==
  \/ PdStart
  \/ PdStop
  \/ \E headers \in SUBSET CallerKeys, content_type \in PublishTypes,
        compression \in BOOLEAN :
        PdPublish(headers, content_type, compression)

SpecPd == InitPd /\ [][NextPd]_vars

\* ------------------------------------------------------------------------
\* C33: the message published by publish_message(headers=H) carries every
\* header of H, together with the headers the encoding adds.
\* ------------------------------------------------------------------------
C33_CallerHeadersKept ==
  \A i \in 1 .. Len(pd_log) :
    /\ pd_log[i].given \subseteq pd_log[i].headers
    /\ pd_log[i].compression => "compression" \in pd_log[i].headers
    /\ pd_log[i].content_type = "application/x-avro" =>
          "x-type-id" \in pd_log[i].headers

\* run() called with or without a finalizer
InitRn ==
  /\ rn_finalize \in BOOLEAN
  /\ rn_pc = "run_forever"
  /\ rn_stop = FALSE
  /\ rn_tasks = [t \in Tasks |-> "none"]
  /\ rn_finalized = FALSE
  /\ TmInit /\ RsInit /\ PdInit /\ SrInit /\ CrInit /\ RgInit /\ DlInit /\ DnInit /\ DgInit
  /\ CbUnused /\ CmInit
  /\ NsInit /\ RqInit /\ SeUnused /\ SdInit /\ MtInit /\ RpInit

NextRn ==
  \/ \E t \in Tasks : RnSpawn(t)
  \/ RnSignal
  \/ \E t \in Tasks : RnTaskRaises(t)
  \/ RnLoopStops
  \/ RnFinalized
  \/ RnCancelled
  \/ RnClosed

SpecRn == InitRn /\ [][NextRn]_vars

\* ------------------------------------------------------------------------
\* C34: once the loop of run() has stopped, the shutdown goes through its
\* steps in order and to the end: the finalizer has completed before the
\* tasks are cancelled, no task is pending when the loop is closed, and
\* run() does not leave the sequence half way.
\* ------------------------------------------------------------------------
C34_ShutdownOrder ==
  /\ rn_pc # "raised"
  /\ (rn_finalize /\ rn_pc \in {"gather", "close", "returned"}) => rn_finalized
  /\ rn_pc \in {"close", "returned"} =>
        \A t \in Tasks : rn_tasks[t] # "pending"

\* a Timer made with repeats = 0 .. MaxRepeats
InitTm ==
  /\ tm_repeats \in 0 .. MaxRepeats
  /\ tm_n = tm_repeats
  /\ tm_started = FALSE
  /\ tm_running = FALSE
  /\ tm_cancelled = FALSE
  /\ tm_handle = FALSE
  /\ tm_task = FALSE
  /\ tm_done_cb = FALSE
  /\ tm_cb_pending = FALSE
  /\ tm_calls = 0
  /\ tm_clean = TRUE
  /\ RsInit /\ RnInit /\ PdInit /\ SrInit /\ CrInit /\ RgInit /\ DlInit /\ DnInit
  /\ DgInit /\ CbUnused /\ CmInit
  /\ NsInit /\ RqInit /\ SeUnused /\ SdInit /\ MtInit /\ RpInit

NextTm ==
  \/ TmStart
  \/ TmStop
  \/ TmExpiry
  \/ TmCallbackReturns
  \/ TmCallbackRaises
  \/ TmDoneCallback

SpecTm == InitTm /\ [][NextTm]_vars

\* the started timer has nothing left to do
TimerAtRest ==
  /\ tm_started
  /\ ~tm_handle
  /\ ~tm_task
  /\ ~tm_cb_pending

AttemptsInFlight == {t \in TaskIds : task[t].pc \in {"connecting", "made", "up"}}

\* ------------------------------------------------------------------------
\* C36: a stream client never has more than one connect attempt in flight
\* and never more than one connected peer, whatever the interleaving of
\* start, stop, connect completion and connection_lost, and the connect
\* handle it retains refers to the attempt in flight.
\* ------------------------------------------------------------------------
C36_SingleConnect ==
  ~is_server =>
     /\ Cardinality(AttemptsInFlight) <= 1
     /\ Cardinality(peers) <= 1
     /\ \A t \in AttemptsInFlight : connect_task = t

\* ------------------------------------------------------------------------
\* C37: when request() has ended with an error before it awaited its
\* completion slot (the payload does not encode, the requester is not
\* started, publish raises), the outstanding-request table holds no entry
\* for its correlation id.
\* ------------------------------------------------------------------------
C37_NoEntryAfterFailedRequest ==
  \A cid \in Cids : req_pc[cid] = "raised" => cid \notin futures

InitRs == RsInit /\ TmInit /\ RnInit /\ PdInit /\ SrInit /\ CrInit /\ RgInit /\ DlInit /\ DnInit /\ DgInit /\ CbUnused /\ CmInit /\ NsInit /\ RqInit /\ SeUnused /\ SdInit /\ MtInit /\ RpInit

NextRs ==
  \/ \E d \in Deliveries, reply_to \in BOOLEAN, decodes \in BOOLEAN :
       RsOnRequest(d, reply_to, decodes)
  \/ \E d \in Deliveries, raises \in BOOLEAN, encodes \in BOOLEAN :
       RsHandler(d, raises, encodes)
  \/ \E d \in Deliveries, raises \in BOOLEAN : RsPublish(d, raises)

SpecRs == InitRs /\ [][NextRs]_vars

\* ------------------------------------------------------------------------
\* C38: every request delivery handed to the responder is settled exactly
\* once: while it is handled it is neither acked nor rejected; when
\* _on_request_message has returned it was acked once or rejected once,
\* never both and never neither, whichever way the handling went (it was
\* acked when reply_to is missing and after the response was published,
\* rejected after a decode, handler, encode or publish failure).
\* ------------------------------------------------------------------------
C38_SettledExactlyOnce ==
  \A d \in Deliveries :
    /\ rs_pc[d] # "done" => (rs_acks[d] = 0 /\ rs_rejects[d] = 0)
    /\ rs_pc[d] = "done" =>
         /\ rs_acks[d] + rs_rejects[d] = 1
         /\ rs_acks[d] = 1 <=> rs_path[d] \in {"no_reply_to", "success"}

\* one delivery was rejected after its publish failed, another was acked
\* after its response was published
C38_Witness ==
  \E d, e \in Deliveries :
    /\ rs_path[d] = "publish_error" /\ rs_rejects[d] = 1 /\ rs_acks[d] = 0
    /\ rs_path[e] = "success" /\ rs_acks[e] = 1 /\ rs_rejects[e] = 0

\* the connections whose connection_made was delivered and whose
\* connection_lost was not
Connected(cn) == {c \in ConnIds : cn[c] \in {"open", "closing"}}

\* ------------------------------------------------------------------------
\* C39: the peer map of a stream endpoint holds exactly the connections for
\* which connection_made was delivered and connection_lost was not: an
\* entry is added on on_peer_available and removed on on_peer_unavailable,
\* and send never writes to a peer whose connection_lost was delivered.
\* ------------------------------------------------------------------------
C39_PeerMapIsConnected ==
  [][/\ peers' = Connected(conn')
     /\ peers' \ peers # {} => "on_peer_available" \in ev'
     /\ peers \ peers' # {} => "on_peer_unavailable" \in ev'
     /\ last_send' # last_send =>
          \A c \in ConnIds : last_send'.written[c] > 0 => c \in Connected(conn)]_vars

\* a broadcast that wrote to a connected peer after another connection was
\* lost
C39_Witness ==
  /\ last_send.called
  /\ \E c \in peers : last_send.written[c] = 1
  /\ \E c \in ConnIds : conn[c] = "free" /\ last_send.written[c] = 0
  /\ "on_peer_unavailable" \in ev

\* ------------------------------------------------------------------------
\* C40: once a netstring connection has received an invalid header (length
\* 0 or above 2^31 - 1) and closed, no on_message is delivered on it any
\* more, whatever bytes the transport still hands to data_received,
\* complete valid frames included.
\* ------------------------------------------------------------------------
C40_NoMessageAfterBadHeader ==
  [][ns_closed => ns_msgs' = ns_msgs]_vars

\* a zero-length header closed the connection, the valid frame written
\* after it was handed to data_received and nothing was delivered
C40_Witness ==
  /\ ns_closed
  /\ Len(ns_sent) = 2
  /\ ns_sent[1].kind = "zero"
  /\ ns_sent[2].kind = "frame"
  /\ ns_wire = <<>>
  /\ ns_calls >= 2
  /\ ns_msgs = <<>>

InitMti == MtInit /\ NsInit /\ RqInit /\ SeUnused /\ SdInit /\ RpInit /\ CmInit /\ CbUnused /\ DgInit /\ DnInit /\ DlInit /\ RgInit /\ CrInit /\ SrInit /\ PdInit /\ RnInit /\ TmInit /\ RsInit

NextMti ==
  \/ \E item \in MtiItems : MtWrite(item)
  \/ \E n \in 1..(MTI_HEADER_SIZE + MaxPayload) * MaxFrames : MtDeliver(n)

SpecMti == InitMti /\ [][NextMti]_vars

\* ------------------------------------------------------------------------
\* C15: a single MTI frame with a payload of one byte or more, delivered one
\* byte per call, yields exactly one on_message carrying the payload with
\* type_identifier set to the frame's type id, and no call fails.
\* ------------------------------------------------------------------------
C15_MtiWorstCaseDelivery ==
  (/\ mt_bytewise
   /\ Len(mt_sent) = 1
   /\ mt_sent[1].kind = "frame"
   /\ mt_sent[1].payload # <<>>
   /\ mt_wire = <<>>)
  => /\ mt_msgs = <<[payload |-> mt_sent[1].payload,
                     option |-> "type_identifier", id |-> mt_sent[1].id]>>
     /\ ~mt_raised

\* ------------------------------------------------------------------------
\* C16: a frame with length 0 and type id t yields exactly one on_message
\* with an empty payload and t passed as type_identifier, the option that
\* non-empty frames use, and leaves the parser waiting for the next header.
\* ------------------------------------------------------------------------
C16_MtiEmptyFrame ==
  (/\ Len(mt_sent) = 1
   /\ mt_sent[1].kind = "frame"
   /\ mt_sent[1].payload = <<>>
   /\ mt_wire = <<>>)
  => /\ mt_msgs = <<[payload |-> <<>>, option |-> "type_identifier",
                     id |-> mt_sent[1].id]>>
     /\ mt_state = "WAIT_HEADER"
     /\ mt_buffer = <<>>

\* ------------------------------------------------------------------------
\* C17: once the header of a frame announcing more than 2^31 - 1 bytes has
\* been handed to data_received, the connection is closed, the call has
\* returned and no on_message was made for that frame.
\* ------------------------------------------------------------------------
C17_MtiOversizeCloses ==
  (/\ Len(mt_sent) = 1
   /\ mt_sent[1].kind = "huge"
   /\ mt_wire = <<>>)
  => /\ mt_closed
     /\ ~mt_hung
     /\ mt_msgs = <<>>

InitNet == NsInit /\ RqInit /\ SeUnused /\ SdInit /\ MtInit /\ RpInit /\ CmInit /\ CbUnused /\ DgInit /\ DnInit /\ DlInit /\ RgInit /\ CrInit /\ SrInit /\ PdInit /\ RnInit /\ TmInit /\ RsInit

NextNet ==
  \/ \E item \in Items : NsWrite(item)
  \/ \E data \in Payloads \cup {<<>>} : NsSend(data)
  \/ \E n \in 1..(NETSTRING_HEADER_SIZE + MaxPayload) * MaxFrames : NsDeliver(n)

SpecNet == InitNet /\ [][NextNet]_vars

\* ------------------------------------------------------------------------
\* C1: a single valid frame delivered one byte per call yields exactly one
\* on_message carrying the payload, and no call fails.
\* ------------------------------------------------------------------------
OneFrameBytewise ==
  /\ ns_bytewise
  /\ Len(ns_sent) = 1
  /\ ns_sent[1].kind = "frame"

C1_WorstCaseDelivery ==
  /\ (OneFrameBytewise /\ ns_wire = <<>>) =>
        /\ ns_msgs = <<ns_sent[1].payload>>
        /\ ~ns_raised
  /\ (OneFrameBytewise /\ ns_wire # <<>>) => ns_msgs = <<>>

\* ------------------------------------------------------------------------
\* C13: a data_received call on an empty buffer whose data holds k >= 2
\* complete frames, optionally followed by the start of another one, invokes
\* on_message once per complete frame in wire order and keeps exactly the
\* bytes of the incomplete frame in the buffer.
\* ------------------------------------------------------------------------
C13_SeveralFrames ==
  [][\A i \in 1..MaxFrames, k \in 2..MaxFrames :
       LET n == Len(ns_wire) - Len(ns_wire')
           last == i + k - 1
           whole == SubSeq(ns_sent, i, last)
       IN
       (/\ ns_calls' = ns_calls + 1
        /\ ns_buffer = <<>>
        /\ ns_state = "WAIT_HEADER"
        /\ last <= Len(ns_sent)
        /\ \A j \in i..last : ns_sent[j].kind = "frame"
        /\ ns_wire = Wire(SubSeq(ns_sent, i, Len(ns_sent)))
        /\ n >= Len(Wire(whole))
        /\ last < Len(ns_sent) => n < Len(Wire(SubSeq(ns_sent, i, last + 1))))
       =>
       (/\ ns_msgs' = ns_msgs \o [j \in 1..k |-> whole[j].payload]
        /\ ns_buffer' = SubSeq(ns_wire, Len(Wire(whole)) + 1, n)
        /\ ns_raised' = ns_raised
        /\ ns_closed' = ns_closed)]_vars

C13_Witness ==
  /\ ns_calls = 1
  /\ Len(ns_sent) = 3
  /\ ns_msgs = <<ns_sent[1].payload, ns_sent[2].payload>>
  /\ ns_msgs[1] # ns_msgs[2]
  /\ Len(ns_buffer) > NETSTRING_HEADER_SIZE
  /\ ns_wire # <<>>
  /\ ~ns_raised

\* ------------------------------------------------------------------------
\* C14: when a data_received call completes a header announcing length 0 or
\* a length above 2^31 - 1 (after k >= 0 complete frames of the same call),
\* the parser closes the connection and invokes on_message for the frames
\* before that header only, without raising.
\* ------------------------------------------------------------------------
C14_BadHeaderCloses ==
  [][\A i \in 1..MaxFrames, k \in 0..MaxFrames - 1 :
       LET n == Len(ns_wire) - Len(ns_wire')
           bad == i + k
           whole == SubSeq(ns_sent, i, bad - 1)
       IN
       (/\ ns_calls' = ns_calls + 1
        /\ ns_state = "WAIT_HEADER"
        /\ bad <= Len(ns_sent)
        /\ \A j \in i..bad - 1 : ns_sent[j].kind = "frame"
        /\ ns_sent[bad].kind \in {"zero", "huge", "empty"}
        /\ ns_buffer \o ns_wire = Wire(SubSeq(ns_sent, i, Len(ns_sent)))
        /\ Len(ns_buffer) + n >= Len(Wire(whole)) + NETSTRING_HEADER_SIZE)
       =>
       (/\ ns_closed'
        /\ ns_msgs' = ns_msgs \o [j \in 1..k |-> whole[j].payload]
        /\ ns_raised' = ns_raised)]_vars

C14_Witness ==
  /\ ns_closed
  /\ ~ns_raised
  /\ Len(ns_sent) = 2
  /\ ns_sent[1].kind = "frame"
  /\ ns_sent[2].kind = "huge"
  /\ ns_msgs = <<ns_sent[1].payload>>
  /\ ns_wire = <<>>

\* ------------------------------------------------------------------------
\* C18: send() with an empty payload writes nothing to the transport: the
\* stream never carries a length-0 frame written by a netstring sender.
\* ------------------------------------------------------------------------
C18_EmptySendRejected ==
  \A i \in 1..Len(ns_sent) : ns_sent[i].kind # "empty"

\* ========================================================================
\* Claims about the stream endpoint
\* ========================================================================

\* C2: once stop() has returned on a stream client, and until start is
\* called again, no step starts a connect attempt or a backoff wait,
\* completes a connection (on_peer_available), or invokes on_started.
C2_NothingAfterStop ==
  (~is_server /\ stopped) =>
     ev \cap {"attempt", "wait", "on_peer_available", "on_started"} = {}

\* C5: the nominal wait before the k-th consecutive unsuccessful connect
\* attempt since the last start or the last successful connection is the
\* k-th value of 0, 1, 2.5, 4.75, 8.125, 10, 10, ... seconds (here in
\* eighths); it never exceeds backoff_maximum, and the first attempt after
\* a successful connection has zero wait.
C5_BackoffSequence ==
  (~is_server /\ attempts >= 1) =>
     /\ last_wait = IF attempts >= 6 THEN 80 ELSE <<0, 8, 20, 38, 65>>[attempts]
     /\ last_wait <= backoff_maximum * Unit

\* C6: when a stream server's start fails to bind its listener, on_started
\* is not invoked, running is false afterwards, and a later stop() does not
\* invoke on_stopped.
C6_FailedBindNotRunning ==
  (is_server /\ bind_failed) =>
     /\ started_calls = 0
     /\ ~running
     /\ "on_stopped" \notin ev

\* C7: whenever running is true, a server's bindings is non-empty and a
\* client's connections is non-empty.
C7_RunningImpliesBound ==
  running => IF is_server THEN bindings # {} ELSE connections # {}

\* C7, amended: a server for which on_started was delivered has non-empty
\* bindings, and a client's connections is non-empty exactly while there is
\* a connection whose connection_made was delivered and whose
\* connection_lost was not; running alone implies neither.
C7_BoundOnceStarted ==
  /\ (is_server /\ started_calls >= 1) => bindings # {}
  /\ ~is_server =>
       (connections # {} <=> \E c \in ConnIds : conn[c] \in {"open", "closing"})

\* a running client that is connected, and on_started was just delivered
C7_Witness ==
  /\ ~is_server
  /\ running
  /\ connections # {}
  /\ "on_started" \in ev

\* C8: when an established connection of a stream client started with
\* reconnect=true is lost and stop has not been called, the entry is removed
\* from the peer map, on_peer_unavailable is delivered, and a new connect
\* attempt is eventually made (unless stop is called in the meantime).
C8_LostThenReconnect ==
  /\ [][\A c \in ConnIds :
          (conn[c] \in {"open", "closing"} /\ conn'[c] = "free") =>
             (c \notin peers' /\ "on_peer_unavailable" \in ev')]_vars
  /\ (~is_server /\ reconnect /\ "on_peer_unavailable" \in ev)
        ~> ("attempt" \in ev \/ "stop" \in ev)

\* the first connect attempt after a connection of a reconnecting client
\* was established and lost
C8_Witness ==
  /\ ~is_server
  /\ reconnect
  /\ started_calls >= 1
  /\ peers = {}
  /\ attempts = 1
  /\ "attempt" \in ev

\* C9: a stream client started with reconnect=false makes at most one
\* connect attempt per start, with no backoff wait; after a refusal or after
\* its connection is lost no further attempt is made.
C9_SingleAttempt ==
  (~is_server /\ ~start_reconnect) =>
     /\ attempts <= 1
     /\ last_wait = 0
     /\ "wait" \notin ev
     /\ started_calls <= 1
     /\ (started_calls = 1) => (attempts = 0 /\ "attempt" \notin ev)

\* C10: start() while running and stop() while not running change nothing,
\* on_stopped is invoked exactly when running goes from true to false,
\* on_started is invoked at most once for each period of running, and
\* exactly once by the time a server whose start() has finished leaves it.
C10_Idempotent ==
  [][/\ ("start" \in ev' /\ running) =>
          UNCHANGED <<running, reconnect, backoff, backoff_task, connect_task,
                      listener, listener_addr, peers, conn, task, start_pc>>
     /\ ("stop" \in ev' /\ ~running) =>
          /\ "on_stopped" \notin ev'
          /\ UNCHANGED <<running, reconnect, backoff, backoff_task,
                         connect_task, listener, listener_addr, peers, conn,
                         task, stop_pc>>
     /\ "on_stopped" \in ev' <=> (running /\ ~running')
     /\ started_calls' <= 1
     /\ (is_server /\ start_pc = "idle" /\ running /\ ~running') =>
          started_calls = 1]_vars

\* C11: a stream server's stop() closes the listener before it disconnects
\* the peers, on_stopped is delivered only when every peer is gone from the
\* peer map (its on_peer_unavailable was delivered), and after stop() has
\* returned (and no start() is still binding a listener) the peer map is
\* empty.
C11_ServerStopOrder ==
  is_server =>
     /\ stop_pc = "disconnect" => listener # "open"
     /\ "on_stopped" \in ev => peers = {}
     /\ (stopped /\ start_pc = "idle" /\ listener = "none") => peers = {}

\* C12: a send() whose data can be encoded makes exactly one write on
\* exactly the targeted peers: without peer_id one write on every peer of the
\* peer map, with a peer_id one write on that peer and none on any other.
C12_SendTargets ==
  [][(last_send' # last_send /\ last_send'.encodes) =>
        \A c \in ConnIds :
           last_send'.written[c] =
              IF last_send'.peer_id = NoPeer
                THEN (IF c \in peers THEN 1 ELSE 0)
                ELSE (IF c = last_send'.peer_id /\ c \in peers THEN 1 ELSE 0)]_vars

\* a unicast to one of several connected peers
C12_Witness ==
  /\ Cardinality(peers) >= 2
  /\ last_send.called
  /\ last_send.peer_id \in peers
  /\ last_send.written[last_send.peer_id] = 1
  /\ \A c \in ConnIds \ {last_send.peer_id} : last_send.written[c] = 0

====
